---- MODULE Spec2Model ----
(***************************************************************************)
(* The betting state machine of src/poker_engine.py (class PokerEngine):   *)
(* start_new_hand, process_action and the round / showdown transitions     *)
(* they run.  Seats are numbered from 0 as in the source and a player's id *)
(* is its seat.  The shuffled deck is not part of the state: nothing reads *)
(* a card before the showdown compares the hands, which happens at most    *)
(* once in a hand, so a player's cards are their number (cards) and the    *)
(* outcome of the shuffle is drawn where _evaluate_hands_for_pot compares  *)
(* the hands (ranks: for every seat, the rank of its best hand).           *)
(* What process_action returns is the operator Validate.                   *)
(***************************************************************************)
EXTENDS Integers, FiniteSets, Sequences, TLC

\* ---------------------------------------------------------------- bounds
MaxPlayers == 3
MaxStartingChips == 3
MaxHands == 2
MaxSmallBlind == 1
MaxBigBlind == 2
\* the card specification: seats at the table, and how far the shuffle cuts
MaxSeats == 24
MaxCut == 1
\* the session specification: hands started at one table
MaxSessionHands == 10
\* the preserved session: hands played one after the other with the chips kept
MaxPreservedHands == 3

PlayerIds == 0 .. (MaxPlayers - 1)
Actions == {"fold", "call", "raise", "check", "all_in"}
\* every raise-to amount above a player's stack is clamped to the stack
Amounts == 0 .. (MaxPlayers * MaxStartingChips + 1)
BlindLevels == {b \in (1 .. MaxSmallBlind) \X (1 .. MaxBigBlind) : b[1] < b[2]}

VARIABLES
    game_state,               \* PokerEngine.game_state (NoGame models None)
    dealer_position,          \* PokerEngine.dealer_position
    hand_number,              \* PokerEngine.hand_number
    small_blind,              \* PokerEngine.small_blind
    big_blind,                \* PokerEngine.big_blind
    chip_distribution_error,  \* the CHIP DISTRIBUTION ERROR branch was taken
    deck,                     \* game_state.deck, the cards themselves
    hole_cards,               \* player.cards of every seat
    community_cards,          \* game_state.community_cards
    round,                    \* game_state.round, in the card specification
    all_cards,                \* the cards handed to get_hand_rank
    hand_rank,                \* what get_hand_rank returned for them
    play_pc,                  \* where EvaluationAgent._play_hand stands
    response,                 \* what request_action gave in this iteration
    actions_taken,            \* actions_taken of _play_hand
    agent_contexts,           \* PokerAssessmentManager.agent_contexts
    agent_initialized,        \* PokerAssessmentManager.agent_initialized
    agent_memory,             \* PokerAssessmentManager.agent_memory
    issued                    \* the number of ids uuid4 has handed out

bet_vars == <<game_state, dealer_position, hand_number, small_blind, big_blind,
              chip_distribution_error>>

eval_vars == <<all_cards, hand_rank>>

card_vars == <<deck, hole_cards, community_cards, round, eval_vars>>

play_vars == <<play_pc, response, actions_taken>>

agent_vars == <<agent_contexts, agent_initialized, agent_memory, issued>>

\* the state of the orchestrators, which the engine knows nothing of
outer_vars == <<play_vars, agent_vars>>

vars == <<bet_vars, card_vars, outer_vars>>

\* ---------------------------------------------------------------- helpers
Min(a, b) == IF a < b THEN a ELSE b

SetMax(S) == CHOOSE x \in S : \A y \in S : y <= x

SetMin(S) == CHOOSE x \in S : \A y \in S : x <= y

RECURSIVE SumOver(_, _)
SumOver(f, S) ==
    IF S = {} THEN 0
    ELSE LET x == CHOOSE y \in S : TRUE IN f[x] + SumOver(f, S \ {x})

Reverse(s) == [k \in 1 .. Len(s) |-> s[Len(s) + 1 - k]]

\* sorted(set(...), reverse=True)
RECURSIVE SortedDescending(_)
SortedDescending(S) ==
    IF S = {} THEN <<>>
    ELSE <<SetMax(S)>> \o SortedDescending(S \ {SetMax(S)})

\* ---------------------------------------------------------------- state
\* GameState without its deck and without the fields nothing reads back
\* (last_raise_amount) or that copy the engine's (small_blind, big_blind,
\* hand_number); community_cards is the number of board cards
NoGame ==
    [players |-> <<>>, community_cards |-> 0, pot |-> 0, current_bet |-> 0,
     dealer_position |-> 0, current_player |-> 0, round |-> "none",
     minimum_raise |-> 0]

NewPlayer(chips) ==
    [chips |-> chips, cards |-> 0, current_bet |-> 0,
     total_bet |-> 0, is_active |-> TRUE, is_all_in |-> FALSE,
     has_acted_this_round |-> FALSE]

Seats(gs) == DOMAIN gs.players

NumPlayers(gs) == Cardinality(Seats(gs))

ChipsOf(gs) == [i \in Seats(gs) |-> gs.players[i].chips]

TotalBetOf(gs) == [i \in Seats(gs) |-> gs.players[i].total_bet]

TotalChips(gs) == SumOver(ChipsOf(gs), Seats(gs))

ActivePlayers(gs) == {i \in Seats(gs) : gs.players[i].is_active}

\* is_active and not is_all_in and chips > 0
CanAct(gs, i) ==
    /\ gs.players[i].is_active
    /\ ~gs.players[i].is_all_in
    /\ gs.players[i].chips > 0

\* first seat of S met when scanning clockwise from start
FirstClockwise(gs, start, S) ==
    LET n == NumPlayers(gs)
        off == SetMin({o \in 0 .. (n - 1) : ((start + o) % n) \in S})
    IN (start + off) % n

\* ---------------------------------------------------------------- showdown
\* _evaluate_hands_for_pot: the players of S holding the best hand; the
\* source returns them in seat order, so winners[0] is the lowest seat
EvaluateHandsForPot(ranks, S) ==
    {i \in S : \A j \in S : ranks[j] <= ranks[i]}

\* the payout with the remainder given to the last winner in seat order
PayWinners_RemainderToLast(chips, winners, amount) ==
    LET k == Cardinality(winners)
        pot_per_winner == amount \div k
        remainder == amount % k
    IN [i \in DOMAIN chips |->
          chips[i]
          + (IF i \in winners THEN pot_per_winner ELSE 0)
          + (IF remainder > 0 /\ i = SetMax(winners) THEN remainder ELSE 0)]

\* "winner.chips += pot_per_winner" for each winner, remainder to winners[0]
PayWinners(chips, winners, amount) ==
    LET k == Cardinality(winners)
        pot_per_winner == amount \div k
        remainder == amount % k
    IN [i \in DOMAIN chips |->
          chips[i]
          + (IF i \in winners THEN pot_per_winner ELSE 0)
          + (IF remainder > 0 /\ i = SetMin(winners) THEN remainder ELSE 0)]

\* _distribute_simple_pot (active_players is never empty here)
DistributeSimplePot(gs, ranks, active_players) ==
    PayWinners(ChipsOf(gs), EvaluateHandsForPot(ranks, active_players), gs.pot)

\* the "for level in all_in_amounts" loop of _distribute_side_pots;
\* acc = [chips, previous_level, total_distributed]
RECURSIVE SidePotLevels(_, _, _, _, _)
SidePotLevels(gs, ranks, active_players, levels, acc) ==
    IF levels = <<>> THEN acc
    ELSE
      LET level == Head(levels)
          eligible_players ==
              {i \in active_players : gs.players[i].total_bet >= level}
          contribution ==
              [i \in eligible_players |->
                  Min(level - acc.previous_level,
                      gs.players[i].total_bet - acc.previous_level)]
          pot_at_level == SumOver(contribution, eligible_players)
          pays == pot_at_level > 0 /\ eligible_players # {}
      IN SidePotLevels(gs, ranks, active_players, Tail(levels),
           [chips |->
               IF pays
               THEN PayWinners(acc.chips,
                        EvaluateHandsForPot(ranks, eligible_players),
                        pot_at_level)
               ELSE acc.chips,
            previous_level |-> level,
            total_distributed |->
               acc.total_distributed + (IF pays THEN pot_at_level ELSE 0)])

\* _distribute_side_pots without its "remaining pot" step
DistributeSidePots_LevelsOnly(gs, ranks, active_players, all_in_amounts) ==
    SidePotLevels(gs, ranks, active_players, all_in_amounts,
        [chips |-> ChipsOf(gs), previous_level |-> 0,
         total_distributed |-> 0]).chips

\* _distribute_side_pots: the levels, then whatever is left of the pot
DistributeSidePots(gs, ranks, active_players, all_in_amounts) ==
    LET acc == SidePotLevels(gs, ranks, active_players, all_in_amounts,
                   [chips |-> ChipsOf(gs), previous_level |-> 0,
                    total_distributed |-> 0])
        remaining == gs.pot - acc.total_distributed
    IN IF remaining > 0
       THEN PayWinners(acc.chips, EvaluateHandsForPot(ranks, active_players),
                       remaining)
       ELSE acc.chips

\* all_in_amounts of _determine_winner
AllInAmounts(gs, active_players) ==
    SortedDescending({gs.players[i].total_bet : i \in
        {j \in active_players : gs.players[j].total_bet > 0}})

\* the chips after the distribution step of _determine_winner, before its
\* verification step
Distribute(gs, ranks) ==
    LET active_players == ActivePlayers(gs)
        all_in_amounts == AllInAmounts(gs, active_players)
    IN IF Cardinality(active_players) = 1
       THEN [i \in Seats(gs) |->
               gs.players[i].chips + (IF i \in active_players THEN gs.pot ELSE 0)]
       ELSE IF Len(all_in_amounts) > 1
       THEN DistributeSidePots(gs, ranks, active_players, all_in_amounts)
       ELSE DistributeSimplePot(gs, ranks, active_players)

\* difference = expected_total - total_chips_after in _determine_winner
Difference(gs, ranks) ==
    (TotalChips(gs) + gs.pot) - SumOver(Distribute(gs, ranks), Seats(gs))

\* _determine_winner divides by len(winners): with no active player at all
\* _distribute_simple_pot raises ZeroDivisionError before it pays anything
DetermineWinnerRaises(gs) == ActivePlayers(gs) = {}

\* _determine_winner, for a state with at least one active player
DetermineWinner(gs, ranks) ==
    LET paid == Distribute(gs, ranks)
        difference == Difference(gs, ranks)
        fixed == [i \in Seats(gs) |->
                    paid[i] + (IF difference # 0 /\ i = SetMin(ActivePlayers(gs))
                               THEN difference ELSE 0)]
    IN [gs EXCEPT !.pot = 0,
                  !.players = [i \in Seats(gs) |->
                                  [gs.players[i] EXCEPT !.chips = fixed[i]]]]

\* ---------------------------------------------------------------- rounds
\* _next_player: the next seat clockwise that still owes chips to the bet
NextPlayer(gs) ==
    LET eligible_players ==
            {i \in Seats(gs) :
                CanAct(gs, i) /\ gs.players[i].current_bet < gs.current_bet}
        start_pos == (gs.current_player + 1) % NumPlayers(gs)
    IN IF eligible_players = {} THEN gs
       ELSE [gs EXCEPT !.current_player =
                          FirstClockwise(gs, start_pos, eligible_players)]

\* _is_round_complete
IsRoundComplete(gs) ==
    LET active_players == ActivePlayers(gs)
        players_who_can_act ==
            {i \in active_players :
                ~gs.players[i].is_all_in /\ gs.players[i].chips > 0}
    IN IF Cardinality(active_players) <= 1 THEN TRUE
       ELSE IF players_who_can_act = {} THEN TRUE
       ELSE IF gs.current_bet = 0
       THEN \A i \in players_who_can_act : gs.players[i].has_acted_this_round
       ELSE \A i \in players_who_can_act :
               /\ gs.players[i].has_acted_this_round
               /\ ~(gs.players[i].current_bet < gs.current_bet)

\* _set_postflop_action_start
SetPostflopActionStart(gs) ==
    LET active_indices ==
            {i \in Seats(gs) :
                /\ gs.players[i].is_active
                /\ (~gs.players[i].is_all_in \/ gs.players[i].chips > 0)}
        start_pos == (gs.dealer_position + 1) % NumPlayers(gs)
    IN IF active_indices = {} THEN gs
       ELSE [gs EXCEPT !.current_player =
                          FirstClockwise(gs, start_pos, active_indices)]

\* _deal_community_cards
DealCommunityCards(gs, num_cards) ==
    [gs EXCEPT !.community_cards = @ + num_cards]

\* _deal_remaining_board_for_visuals
DealRemainingBoardForVisuals(gs) ==
    IF 5 - gs.community_cards > 0
    THEN DealCommunityCards(gs, 5 - gs.community_cards)
    ELSE gs

\* a per-round reset that empties the pot as well
ResetRound_ClearsPot(gs, sb, bb) ==
    [gs EXCEPT !.players = [i \in Seats(gs) |->
                               [gs.players[i] EXCEPT
                                   !.current_bet = 0,
                                   !.has_acted_this_round = FALSE]],
               !.current_bet = 0,
               !.minimum_raise = bb - sb,
               !.pot = 0]

\* the per-round reset of _advance_round (the pot is left alone)
ResetRound(gs, sb, bb) ==
    [gs EXCEPT !.players = [i \in Seats(gs) |->
                               [gs.players[i] EXCEPT
                                   !.current_bet = 0,
                                   !.has_acted_this_round = FALSE]],
               !.current_bet = 0,
               !.minimum_raise = bb - sb]

\* _advance_round reaches _determine_winner
AdvanceRoundShowsDown(gs) ==
    \/ Cardinality(ActivePlayers(gs)) <= 1
    \/ gs.round = "river"

\* the state in which _advance_round calls _determine_winner
BeforeDetermineWinner(gs, sb, bb) ==
    IF Cardinality(ActivePlayers(gs)) <= 1
    THEN [DealRemainingBoardForVisuals(gs) EXCEPT !.round = "showdown"]
    ELSE [ResetRound(gs, sb, bb) EXCEPT !.round = "showdown"]

\* _advance_round reaches _evaluate_hands_for_pot with several players
HandsCompared(gs) ==
    AdvanceRoundShowsDown(gs) /\ Cardinality(ActivePlayers(gs)) >= 2

\* what shuffle_deck can have dealt: how the players' best hands compare
\* (ranks 1..k with no gap).  A player who was dealt no card plays the
\* five board cards alone and so can at best tie with the others.
Deals(gs) ==
    {r \in [Seats(gs) -> 1 .. NumPlayers(gs)] :
        /\ \A i \in Seats(gs) :
              r[i] = 1 \/ \E j \in Seats(gs) : r[j] = r[i] - 1
        /\ \A i \in Seats(gs) :
              gs.players[i].cards = 0 => \A j \in Seats(gs) : r[i] <= r[j]}

\* the hands are not compared: the ranks are not read
NoRanks(gs) == [i \in Seats(gs) |-> 1]

\* _advance_round; when _determine_winner raises, the state is left as it
\* was when _determine_winner was called
AdvanceRound(gs, sb, bb, ranks) ==
    IF AdvanceRoundShowsDown(gs)
    THEN IF DetermineWinnerRaises(gs)
         THEN BeforeDetermineWinner(gs, sb, bb)
         ELSE DetermineWinner(BeforeDetermineWinner(gs, sb, bb), ranks)
    ELSE LET r == ResetRound(gs, sb, bb)
         IN IF gs.round = "preflop"
            THEN SetPostflopActionStart(
                     DealCommunityCards([r EXCEPT !.round = "flop"], 3))
            ELSE IF gs.round = "flop"
            THEN SetPostflopActionStart(
                     DealCommunityCards([r EXCEPT !.round = "turn"], 1))
            ELSE IF gs.round = "turn"
            THEN SetPostflopActionStart(
                     DealCommunityCards([r EXCEPT !.round = "river"], 1))
            ELSE r

\* ---------------------------------------------------------------- actions
\* a payment that is not added to the player's total_bet
Pay_TotalBetForgotten(gs, i, paid) ==
    [gs EXCEPT !.players[i].chips = @ - paid,
               !.players[i].current_bet = @ + paid,
               !.pot = @ + paid]

\* player i moves paid chips into the pot
Pay(gs, i, paid) ==
    [gs EXCEPT !.players[i].chips = @ - paid,
               !.players[i].current_bet = @ + paid,
               !.players[i].total_bet = @ + paid,
               !.pot = @ + paid]

\* a raise that leaves the others' has_acted_this_round as it is
ReopenBetting_KeepsFlags(gs, i) == gs

\* the "for other_player in players" loop after a raise: everybody else who
\* can act and is below the new bet has to act again
ReopenBetting(gs, i) ==
    [gs EXCEPT !.players =
        [j \in Seats(gs) |->
            IF /\ j # i
               /\ CanAct(gs, j)
               /\ gs.players[j].current_bet < gs.current_bet
            THEN [gs.players[j] EXCEPT !.has_acted_this_round = FALSE]
            ELSE gs.players[j]]]

\* FOLD that leaves the player in the hand
Fold_StaysActive(gs, i) ==
    [gs EXCEPT !.players[i].has_acted_this_round = TRUE]

\* FOLD
Fold(gs, i) ==
    [gs EXCEPT !.players[i].is_active = FALSE,
               !.players[i].has_acted_this_round = TRUE]

\* CALL with the pot credited the full call in the all-in branch
Call_PotGetsFullCall(gs, i) ==
    LET player == gs.players[i]
        amount_to_call == gs.current_bet - player.current_bet
        paid == IF player.chips < amount_to_call
                THEN [Pay(gs, i, player.chips) EXCEPT
                         !.players[i].is_all_in = TRUE,
                         !.pot = gs.pot + amount_to_call]
                ELSE Pay(gs, i, amount_to_call)
    IN [paid EXCEPT !.players[i].has_acted_this_round = TRUE]

\* CALL that does not mark a player all-in whose stack did not cover the call
Call_ShortCallNotAllIn(gs, i) ==
    LET player == gs.players[i]
        amount_to_call == gs.current_bet - player.current_bet
        paid == IF player.chips < amount_to_call
                THEN Pay(gs, i, player.chips)
                ELSE Pay(gs, i, amount_to_call)
    IN [paid EXCEPT !.players[i].has_acted_this_round = TRUE]

\* CALL: the whole stack when it does not cover the call, else the call
Call(gs, i) ==
    LET player == gs.players[i]
        amount_to_call == gs.current_bet - player.current_bet
        paid == IF player.chips < amount_to_call
                THEN [Pay(gs, i, player.chips) EXCEPT
                         !.players[i].is_all_in = TRUE]
                ELSE Pay(gs, i, amount_to_call)
    IN [paid EXCEPT !.players[i].has_acted_this_round = TRUE]

\* ALL_IN, and the "auto all-in" branch of RAISE, which is the same code
AllIn(gs, i) ==
    LET old_current_bet == gs.current_bet
        paid == [Pay(gs, i, gs.players[i].chips) EXCEPT
                    !.players[i].is_all_in = TRUE]
        raised ==
            IF paid.players[i].current_bet > old_current_bet
            THEN ReopenBetting(
                     [paid EXCEPT
                         !.current_bet = paid.players[i].current_bet,
                         !.minimum_raise =
                             paid.players[i].current_bet - old_current_bet],
                     i)
            ELSE paid
    IN [raised EXCEPT !.players[i].has_acted_this_round = TRUE]

\* RAISE is refused: "must be greater than current bet"
RaiseRefused(gs, i, amount) == amount <= gs.players[i].current_bet

\* the raise-to amount RAISE goes on with: capped to the stack, and
\* replaced by the whole stack when it is below the minimum raise (the
\* "player has no chips" error of that branch needs chips = 0, which
\* process_action has refused before)
RaiseTo(gs, i, amount) ==
    LET player == gs.players[i]
        max_affordable == player.current_bet + player.chips
        capped == IF amount > max_affordable THEN max_affordable ELSE amount
        minimum_raise_to == gs.current_bet + gs.minimum_raise
    IN IF capped < minimum_raise_to /\ capped < max_affordable
       THEN max_affordable
       ELSE capped

\* RAISE with minimum_raise set to what the raiser added to its own bet
Raise_DeltaFromOwnBet(gs, i, amount) ==
    LET player == gs.players[i]
        to == RaiseTo(gs, i, amount)
        raise_amount == to - player.current_bet
    IN IF player.chips < raise_amount
       THEN AllIn(gs, i)
       ELSE LET paid == [Pay(gs, i, raise_amount) EXCEPT
                            !.current_bet = to,
                            !.minimum_raise = raise_amount]
            IN [ReopenBetting(paid, i) EXCEPT
                   !.players[i].has_acted_this_round = TRUE]

\* RAISE, once the amount is accepted
Raise(gs, i, amount) ==
    LET player == gs.players[i]
        to == RaiseTo(gs, i, amount)
        raise_amount == to - player.current_bet
        old_current_bet == gs.current_bet
    IN IF player.chips < raise_amount
       THEN AllIn(gs, i)
       ELSE LET paid == [Pay(gs, i, raise_amount) EXCEPT
                            !.current_bet = to,
                            !.minimum_raise = to - old_current_bet]
            IN [ReopenBetting(paid, i) EXCEPT
                   !.players[i].has_acted_this_round = TRUE]

\* CHECK is refused: "Cannot check when there's a bet to call"
CheckRefused(gs, i) == gs.players[i].current_bet < gs.current_bet

\* CHECK
Check(gs, i) == [gs EXCEPT !.players[i].has_acted_this_round = TRUE]

\* process_action without the test "if not player.is_active"
Validate_FoldedMayAct(gs, player_id, action, amount) ==
    IF gs.round = "none" THEN "No active game"
    ELSE IF player_id \notin Seats(gs) THEN "Player not found"
    ELSE IF player_id # gs.current_player THEN "Not your turn"
    ELSE IF gs.players[player_id].is_all_in THEN "Player is all-in, cannot act"
    ELSE IF gs.players[player_id].chips <= 0 THEN "Player has no chips"
    ELSE IF action = "raise" /\ RaiseRefused(gs, player_id, amount)
    THEN "Raise amount must be greater than current bet"
    ELSE IF action = "check" /\ CheckRefused(gs, player_id)
    THEN "Cannot check when there's a bet to call"
    ELSE "success"

\* the error process_action returns, "success" when it returns none
Validate(gs, player_id, action, amount) ==
    IF gs.round = "none" THEN "No active game"
    ELSE IF player_id \notin Seats(gs) THEN "Player not found"
    ELSE IF player_id # gs.current_player THEN "Not your turn"
    ELSE IF ~gs.players[player_id].is_active THEN "Player has already folded"
    ELSE IF gs.players[player_id].is_all_in THEN "Player is all-in, cannot act"
    ELSE IF gs.players[player_id].chips <= 0 THEN "Player has no chips"
    ELSE IF action = "raise" /\ RaiseRefused(gs, player_id, amount)
    THEN "Raise amount must be greater than current bet"
    ELSE IF action = "check" /\ CheckRefused(gs, player_id)
    THEN "Cannot check when there's a bet to call"
    ELSE "success"

\* the effect of an accepted action on the acting player and the pot
ApplyAction(gs, i, action, amount) ==
    CASE action = "fold" -> Fold(gs, i)
      [] action = "call" -> Call(gs, i)
      [] action = "raise" -> Raise(gs, i, amount)
      [] action = "check" -> Check(gs, i)
      [] action = "all_in" -> AllIn(gs, i)

\* the state in which an accepted action reaches "if _is_round_complete()"
AfterAction(gs, i, action, amount) ==
    NextPlayer(ApplyAction(gs, i, action, amount))

\* ---------------------------------------------------------------- hand start
\* _deal_hole_cards: two cards to every player who has chips
DealHoleCards(gs) ==
    [gs EXCEPT !.players =
        [i \in Seats(gs) |->
            IF gs.players[i].is_active /\ gs.players[i].chips > 0
            THEN [gs.players[i] EXCEPT !.cards = 2]
            ELSE gs.players[i]]]

\* _post_blinds with the table bet set to the big blind, posted in full or not
PostBlinds_TableBetIsBigBlind(gs, sb, bb) ==
    LET n == NumPlayers(gs)
        sb_pos == (gs.dealer_position + 1) % n
        bb_pos == (gs.dealer_position + 2) % n
        sb_amount == Min(sb, gs.players[sb_pos].chips)
        sb_paid == Pay(gs, sb_pos, sb_amount)
        sb_done == IF sb_paid.players[sb_pos].chips = 0
                   THEN [sb_paid EXCEPT !.players[sb_pos].is_all_in = TRUE]
                   ELSE sb_paid
        bb_amount == Min(bb, sb_done.players[bb_pos].chips)
        bb_paid == Pay(sb_done, bb_pos, bb_amount)
        bb_done == IF bb_paid.players[bb_pos].chips = 0
                   THEN [bb_paid EXCEPT !.players[bb_pos].is_all_in = TRUE]
                   ELSE bb_paid
        posted == [bb_done EXCEPT !.current_bet = bb,
                                  !.minimum_raise = bb_amount - sb_amount]
        utg_pos == (bb_pos + 1) % n
        active_indices ==
            {i \in Seats(posted) :
                posted.players[i].is_active /\ posted.players[i].chips > 0}
    IN IF utg_pos \in active_indices
       THEN [posted EXCEPT !.current_player = utg_pos]
       ELSE IF active_indices # {}
       THEN [posted EXCEPT !.current_player = SetMin(active_indices)]
       ELSE posted

\* _post_blinds
PostBlinds(gs, sb, bb) ==
    LET n == NumPlayers(gs)
        sb_pos == (gs.dealer_position + 1) % n
        bb_pos == (gs.dealer_position + 2) % n
        sb_amount == Min(sb, gs.players[sb_pos].chips)
        sb_paid == Pay(gs, sb_pos, sb_amount)
        sb_done == IF sb_paid.players[sb_pos].chips = 0
                   THEN [sb_paid EXCEPT !.players[sb_pos].is_all_in = TRUE]
                   ELSE sb_paid
        bb_amount == Min(bb, sb_done.players[bb_pos].chips)
        bb_paid == Pay(sb_done, bb_pos, bb_amount)
        bb_done == IF bb_paid.players[bb_pos].chips = 0
                   THEN [bb_paid EXCEPT !.players[bb_pos].is_all_in = TRUE]
                   ELSE bb_paid
        posted == [bb_done EXCEPT !.current_bet = bb_amount,
                                  !.minimum_raise = bb_amount - sb_amount]
        utg_pos == (bb_pos + 1) % n
        active_indices ==
            {i \in Seats(posted) :
                posted.players[i].is_active /\ posted.players[i].chips > 0}
    IN IF utg_pos \in active_indices
       THEN [posted EXCEPT !.current_player = utg_pos]
       ELSE IF active_indices # {}
       THEN [posted EXCEPT !.current_player = SetMin(active_indices)]
       ELSE posted

\* the chips start_new_hand gives the player with id pid
StartChips(old, pid, starting_chips, preserve_chips) ==
    IF preserve_chips /\ old.round # "none" /\ pid \in Seats(old)
    THEN old.players[pid].chips
    ELSE starting_chips

\* start_new_hand moving the dealer on the first hand as on every other
NextDealer_RotatesFirstHand(dealer, hand, n) ==
    IF hand >= 1 /\ n > 0 THEN (dealer + 1) % n
    ELSE dealer

\* the dealer seat start_new_hand moves to
NextDealer(dealer, hand, n) ==
    IF hand > 1 /\ n > 0 THEN (dealer + 1) % n
    ELSE IF hand = 1 THEN 0
    ELSE dealer

\* start_new_hand(player_ids, player_names, starting_chips, preserve_chips)
\* for the first n player ids
StartHand(n, starting_chips, preserve_chips) ==
    /\ LET chips == [i \in 0 .. (n - 1) |->
                        StartChips(game_state, i, starting_chips, preserve_chips)]
           dealer == NextDealer(dealer_position, hand_number + 1, n)
       IN /\ game_state' = PostBlinds(DealHoleCards(
                    [players |-> [i \in 0 .. (n - 1) |-> NewPlayer(chips[i])],
                     community_cards |-> 0, pot |-> 0, current_bet |-> 0,
                     dealer_position |-> dealer, current_player |-> 0,
                     round |-> "preflop",
                     minimum_raise |-> big_blind - small_blind]),
                    small_blind, big_blind)
          /\ dealer_position' = dealer
    /\ hand_number' = hand_number + 1
    /\ UNCHANGED <<small_blind, big_blind, chip_distribution_error, card_vars>>

\* start_new_hand in a session of at most MaxHands hands
StartNewHand(n, starting_chips, preserve_chips) ==
    /\ hand_number < MaxHands
    /\ StartHand(n, starting_chips, preserve_chips)

\* ---------------------------------------------------------------- process_action
\* process_action marking the player as having acted before CHECK is refused
ProcessActionDealt_MarksRefusedCheck(player_id, action, amount, ranks) ==
    LET verdict == Validate(game_state, player_id, action, amount)
        acted == AfterAction(game_state, player_id, action, amount)
    IN /\ IF verdict = "Cannot check when there's a bet to call"
          THEN /\ game_state' = Check(game_state, player_id)
               /\ UNCHANGED chip_distribution_error
          ELSE IF verdict # "success"
          THEN UNCHANGED <<game_state, chip_distribution_error>>
          ELSE IF ~IsRoundComplete(acted)
          THEN /\ game_state' = acted
               /\ UNCHANGED chip_distribution_error
          ELSE /\ game_state' =
                     AdvanceRound(acted, small_blind, big_blind, ranks)
               /\ chip_distribution_error' =
                     (\/ chip_distribution_error
                      \/ /\ AdvanceRoundShowsDown(acted)
                         /\ ~DetermineWinnerRaises(acted)
                         /\ Difference(BeforeDetermineWinner(
                                acted, small_blind, big_blind), ranks) # 0)
       /\ UNCHANGED <<dealer_position, hand_number, small_blind, big_blind,
                      card_vars>>

\* process_action(player_id, action, amount), where the shuffle dealt ranks
ProcessActionDealt(player_id, action, amount, ranks) ==
    LET verdict == Validate(game_state, player_id, action, amount)
        acted == AfterAction(game_state, player_id, action, amount)
    IN /\ IF verdict # "success"
          THEN UNCHANGED <<game_state, chip_distribution_error>>
          ELSE IF ~IsRoundComplete(acted)
          THEN /\ game_state' = acted
               /\ UNCHANGED chip_distribution_error
          ELSE /\ game_state' =
                     AdvanceRound(acted, small_blind, big_blind, ranks)
               /\ chip_distribution_error' =
                     (\/ chip_distribution_error
                      \/ /\ AdvanceRoundShowsDown(acted)
                         /\ ~DetermineWinnerRaises(acted)
                         /\ Difference(BeforeDetermineWinner(
                                acted, small_blind, big_blind), ranks) # 0)
       /\ UNCHANGED <<dealer_position, hand_number, small_blind, big_blind,
                      card_vars>>

\* the call reaches the comparison of the hands
ComparesHands(player_id, action, amount) ==
    /\ Validate(game_state, player_id, action, amount) = "success"
    /\ IsRoundComplete(AfterAction(game_state, player_id, action, amount))
    /\ HandsCompared(AfterAction(game_state, player_id, action, amount))

\* process_action(player_id, action, amount)
ProcessAction(player_id, action, amount) ==
    IF ComparesHands(player_id, action, amount)
    THEN \E ranks \in Deals(game_state) :
            ProcessActionDealt(player_id, action, amount, ranks)
    ELSE ProcessActionDealt(player_id, action, amount, NoRanks(game_state))

\* ---------------------------------------------------------------- cards
\* The cards themselves, with the betting left out: a hand is dealt, the
\* streets are dealt one after the other as _advance_round does, and a hand
\* can end early at any street (all but one player folded).
Suits == <<"hearts", "diamonds", "clubs", "spades">>

Ranks == 2 .. 14

\* create_deck: for suit in Suit, for rank in Rank
CreateDeck ==
    [k \in 1 .. (Len(Suits) * Cardinality(Ranks)) |->
        [rank |-> 2 + ((k - 1) % Cardinality(Ranks)),
         suit |-> Suits[((k - 1) \div Cardinality(Ranks)) + 1]]]

\* the cards of a sequence
CardsIn(cards) == {cards[k] : k \in DOMAIN cards}

\* some of the orders random.sample(deck, len(deck)) can return: the deck
\* cut at c, as it is or turned over
ShuffleDeck(d) ==
    LET cut(c) == SubSeq(d, c + 1, Len(d)) \o SubSeq(d, 1, c)
    IN {cut(c) : c \in 0 .. MaxCut} \cup {Reverse(cut(c)) : c \in 0 .. MaxCut}

\* deal_cards whose remaining deck is the whole deck
DealCards_KeepsDeck(d, num_cards) ==
    [dealt |-> SubSeq(d, 1, Min(num_cards, Len(d))),
     remaining |-> d]

\* deal_cards: deck[:num_cards] and deck[num_cards:]
DealCards(d, num_cards) ==
    [dealt |-> SubSeq(d, 1, Min(num_cards, Len(d))),
     remaining |-> SubSeq(d, Min(num_cards, Len(d)) + 1, Len(d))]

\* what the k-th call deal_cards(deck, 1) in a row deals from d
NthDeal(d, k) == DealCards(DealCards(d, k - 1).remaining, 1).dealt

\* _deal_hole_cards for n seats of which those of playing have chips: one
\* card to each of them in seat order, twice, so that the seat which is
\* the k-th of the m playing gets the k-th and the (m + k)-th card dealt
DealHoleCardsTo(d, n, playing) ==
    LET m == Cardinality(playing)
        turn(i) == Cardinality({j \in playing : j <= i})
    IN [deck |-> DealCards(d, 2 * m).remaining,
        cards |-> [i \in 0 .. (n - 1) |->
                     IF i \in playing
                     THEN NthDeal(d, turn(i)) \o NthDeal(d, m + turn(i))
                     ELSE <<>>]]

\* no hand has been evaluated
NoHandRank == [rank |-> 0, tiebreaker |-> <<>>]

\* no response of an agent is held
NoResponse == [kind |-> "nothing"]

\* no orchestrator is at work: _play_hand is not running and the
\* assessment manager holds no agent state
NoOrchestrator ==
    /\ play_pc = "idle"
    /\ response = NoResponse
    /\ actions_taken = 0
    /\ agent_contexts = <<>>
    /\ agent_initialized = <<>>
    /\ agent_memory = <<>>
    /\ issued = 0

\* no hand has been dealt
NoCards ==
    /\ NoOrchestrator
    /\ deck = <<>>
    /\ hole_cards = <<>>
    /\ community_cards = <<>>
    /\ round = "none"
    /\ all_cards = <<>>
    /\ hand_rank = NoHandRank

\* the cards of start_new_hand
DealNewHand(n, playing, shuffled) ==
    LET dealt == DealHoleCardsTo(shuffled, n, playing)
    IN /\ deck' = dealt.deck
       /\ hole_cards' = dealt.cards
       /\ community_cards' = <<>>
       /\ round' = "preflop"
       /\ UNCHANGED <<bet_vars, eval_vars, outer_vars>>

\* _deal_community_cards
DealCommunity(num_cards) ==
    LET r == DealCards(deck, num_cards)
    IN /\ deck' = r.remaining
       /\ community_cards' = community_cards \o r.dealt

\* the cards of _advance_round with two or more players left
AdvanceStreet ==
    /\ round \in {"preflop", "flop", "turn", "river"}
    /\ CASE round = "preflop" -> round' = "flop" /\ DealCommunity(3)
         [] round = "flop" -> round' = "turn" /\ DealCommunity(1)
         [] round = "turn" -> round' = "river" /\ DealCommunity(1)
         [] round = "river" ->
                round' = "showdown" /\ UNCHANGED <<deck, community_cards>>
    /\ UNCHANGED <<hole_cards, bet_vars, eval_vars, outer_vars>>

\* the cards of _advance_round with one player left:
\* _deal_remaining_board_for_visuals, then the showdown
EndHandEarly ==
    /\ round \in {"preflop", "flop", "turn", "river"}
    /\ IF 5 - Len(community_cards) > 0
       THEN DealCommunity(5 - Len(community_cards))
       ELSE UNCHANGED <<deck, community_cards>>
    /\ round' = "showdown"
    /\ UNCHANGED <<hole_cards, bet_vars, eval_vars, outer_vars>>

\* ---------------------------------------------------------------- hand evaluation
\* HandRank
HIGH_CARD == 1
PAIR == 2
TWO_PAIR == 3
THREE_OF_A_KIND == 4
STRAIGHT == 5
FLUSH == 6
FULL_HOUSE == 7
FOUR_OF_A_KIND == 8
STRAIGHT_FLUSH == 9
ROYAL_FLUSH == 10

\* [card.rank.value for card in cards]
RankValues(cards) == [k \in DOMAIN cards |-> cards[k].rank]

\* the ranks left in the order of the cards
SortedReverse_AsDealt(ranks) == ranks

\* sorted(ranks, reverse=True), for a list that may hold a value twice
SortedReverse(ranks) ==
    [k \in DOMAIN ranks |->
        CHOOSE v \in {ranks[i] : i \in DOMAIN ranks} :
            /\ Cardinality({i \in DOMAIN ranks : ranks[i] > v}) < k
            /\ k <= Cardinality({i \in DOMAIN ranks : ranks[i] >= v})]

\* _is_straight without the A-2-3-4-5 case
IsStraight_NoWheel(ranks) ==
    LET sorted_ranks ==
            Reverse(SortedDescending({ranks[k] : k \in DOMAIN ranks}))
    IN IF Len(sorted_ranks) # 5 THEN FALSE
       ELSE \A i \in 1 .. 4 : sorted_ranks[i + 1] - sorted_ranks[i] = 1

\* _is_straight
IsStraight(ranks) ==
    LET sorted_ranks ==
            Reverse(SortedDescending({ranks[k] : k \in DOMAIN ranks}))
    IN IF Len(sorted_ranks) # 5 THEN FALSE
       ELSE IF \A i \in 1 .. 4 : sorted_ranks[i + 1] - sorted_ranks[i] = 1
       THEN TRUE
       ELSE sorted_ranks = <<2, 3, 4, 5, 14>>

\* _evaluate_hand: the rank of a 5-card hand and its tiebreaker values
EvaluateHand(cards) ==
    LET ranks == RankValues(cards)
        rank_set == {ranks[k] : k \in DOMAIN ranks}
        rank_counts ==
            [r \in rank_set |-> Cardinality({k \in DOMAIN ranks : ranks[k] = r})]
        suit_counts == {cards[k].suit : k \in DOMAIN cards}
        \* sorted(rank_counts.items(), key=(count, rank), reverse=True)
        before(a, b) ==
            \/ rank_counts[a] > rank_counts[b]
            \/ rank_counts[a] = rank_counts[b] /\ a > b
        values ==
            [k \in 1 .. Cardinality(rank_set) |->
                CHOOSE r \in rank_set :
                    Cardinality({q \in rank_set : before(q, r)}) = k - 1]
        counts == [k \in DOMAIN values |-> rank_counts[values[k]]]
        is_flush == Cardinality(suit_counts) = 1
        is_straight == IsStraight(ranks)
    IN IF is_straight /\ is_flush
       THEN IF SetMin(rank_set) = 10
            THEN [rank |-> ROYAL_FLUSH, tiebreaker |-> <<>>]
            ELSE [rank |-> STRAIGHT_FLUSH, tiebreaker |-> <<SetMax(rank_set)>>]
       ELSE IF counts = <<4, 1>>
       THEN [rank |-> FOUR_OF_A_KIND, tiebreaker |-> values]
       ELSE IF counts = <<3, 2>>
       THEN [rank |-> FULL_HOUSE, tiebreaker |-> values]
       ELSE IF is_flush
       THEN [rank |-> FLUSH, tiebreaker |-> SortedReverse(ranks)]
       ELSE IF is_straight
       THEN [rank |-> STRAIGHT, tiebreaker |-> <<SetMax(rank_set)>>]
       ELSE IF counts = <<3, 1, 1>>
       THEN [rank |-> THREE_OF_A_KIND, tiebreaker |-> values]
       ELSE IF counts = <<2, 2, 1>>
       THEN [rank |-> TWO_PAIR, tiebreaker |-> values]
       ELSE IF counts = <<2, 1, 1, 1>>
       THEN [rank |-> PAIR, tiebreaker |-> values]
       ELSE [rank |-> HIGH_CARD, tiebreaker |-> SortedReverse(ranks)]

\* a > b for two lists of integers, as Python compares them
ListGreater(a, b) ==
    \/ \E i \in 1 .. Min(Len(a), Len(b)) :
          /\ a[i] > b[i]
          /\ \A j \in 1 .. (i - 1) : a[j] = b[j]
    \/ /\ Len(a) > Len(b)
       /\ \A j \in 1 .. Len(b) : a[j] = b[j]

\* the comparison of get_hand_rank without the tie-break
BetterHand_CategoryOnly(a, b) == a.rank > b.rank

\* "rank.value > best_rank.value or (rank.value == best_rank.value and
\* tiebreaker > best_tiebreaker)"
BetterHand(a, b) ==
    \/ a.rank > b.rank
    \/ a.rank = b.rank /\ ListGreater(a.tiebreaker, b.tiebreaker)

\* the loop of get_hand_rank over combinations(cards, 5), from the
\* combination at the positions indices on: a combination replaces the best
\* one so far when it is strictly better. itertools steps to the next
\* combination by raising the last position that is not at its maximum and
\* setting the positions after it to the ones that follow
RECURSIVE BestCombination(_, _, _)
BestCombination(cards, indices, best) ==
    LET n == Len(cards)
        hand == EvaluateHand([j \in 1 .. 5 |-> cards[indices[j]]])
        now == IF BetterHand(hand, best) THEN hand ELSE best
        movable == {i \in 1 .. 5 : indices[i] # i + n - 5}
        i == SetMax(movable)
    IN IF movable = {} THEN now
       ELSE BestCombination(
                cards,
                [j \in 1 .. 5 |->
                    IF j < i THEN indices[j] ELSE indices[i] + 1 + (j - i)],
                now)

\* get_hand_rank: the best of the 5-card combinations of cards
GetHandRank(cards) ==
    IF Len(cards) < 5
    THEN [rank |-> HIGH_CARD,
          tiebreaker |-> <<SetMax({cards[k].rank : k \in DOMAIN cards})>>]
    ELSE BestCombination(cards, <<1, 2, 3, 4, 5>>,
                         [rank |-> HIGH_CARD, tiebreaker |-> <<>>])

\* get_hand_rank(all_cards), once
RankHand ==
    /\ all_cards # <<>>
    /\ hand_rank = NoHandRank
    /\ hand_rank' = GetHandRank(all_cards)
    /\ UNCHANGED <<bet_vars, deck, hole_cards, community_cards, round,
                   all_cards, outer_vars>>

\* ---------------------------------------------------------------- player view
\* Card.__str__: the rank, J Q K A for 11 to 14, then the symbol of the
\* suit (H D C S stand for the four suit symbols)
CardStr(card) ==
    (CASE card.rank = 11 -> "J"
       [] card.rank = 12 -> "Q"
       [] card.rank = 13 -> "K"
       [] card.rank = 14 -> "A"
       [] OTHER -> ToString(card.rank))
    \o (CASE card.suit = "hearts" -> "H"
          [] card.suit = "diamonds" -> "D"
          [] card.suit = "clubs" -> "C"
          [] card.suit = "spades" -> "S")

\* [str(card) for card in cards]
CardStrs(cards) == [k \in DOMAIN cards |-> CardStr(cards[k])]

\* get_game_state_for_player listing every player's cards among "players"
GetGameStateForPlayer_ShowsAllCards(gs, hand, holes, board, player_id) ==
    IF gs.round = "none" THEN [error |-> "No active game"]
    ELSE IF player_id \notin Seats(gs) THEN [error |-> "Player not found"]
    ELSE [hand_number |-> hand,
          round |-> gs.round,
          pot |-> gs.pot,
          current_bet |-> gs.current_bet,
          community_cards |-> CardStrs(board),
          your_cards |-> CardStrs(holes[player_id]),
          your_chips |-> gs.players[player_id].chips,
          your_current_bet |-> gs.players[player_id].current_bet,
          your_total_bet |-> gs.players[player_id].total_bet,
          is_your_turn |-> gs.current_player = player_id,
          players |-> [i \in Seats(gs) |->
                          [name |-> i,
                           chips |-> gs.players[i].chips,
                           current_bet |-> gs.players[i].current_bet,
                           is_active |-> gs.players[i].is_active,
                           is_all_in |-> gs.players[i].is_all_in,
                           cards |-> CardStrs(holes[i])]]]

\* get_game_state_for_player(player_id) on the game state gs of hand number
\* hand, in which the seats hold the cards holes and the board is board
GetGameStateForPlayer(gs, hand, holes, board, player_id) ==
    IF gs.round = "none" THEN [error |-> "No active game"]
    ELSE IF player_id \notin Seats(gs) THEN [error |-> "Player not found"]
    ELSE [hand_number |-> hand,
          round |-> gs.round,
          pot |-> gs.pot,
          current_bet |-> gs.current_bet,
          community_cards |-> CardStrs(board),
          your_cards |-> CardStrs(holes[player_id]),
          your_chips |-> gs.players[player_id].chips,
          your_current_bet |-> gs.players[player_id].current_bet,
          your_total_bet |-> gs.players[player_id].total_bet,
          is_your_turn |-> gs.current_player = player_id,
          players |-> [i \in Seats(gs) |->
                          [name |-> i,
                           chips |-> gs.players[i].chips,
                           current_bet |-> gs.players[i].current_bet,
                           is_active |-> gs.players[i].is_active,
                           is_all_in |-> gs.players[i].is_all_in]]]

\* ---------------------------------------------------------------- specification
\* PokerEngine.__init__(small_blind, big_blind)
Init ==
    /\ game_state = NoGame
    /\ dealer_position = 0
    /\ hand_number = 0
    /\ \E b \in BlindLevels : small_blind = b[1] /\ big_blind = b[2]
    /\ chip_distribution_error = FALSE
    /\ NoCards

NewHand ==
    \E n \in 2 .. MaxPlayers, starting_chips \in 1 .. MaxStartingChips,
       preserve_chips \in BOOLEAN :
        /\ StartNewHand(n, starting_chips, preserve_chips)
        /\ UNCHANGED outer_vars

Act ==
    \E player_id \in PlayerIds, action \in Actions :
        \E amount \in (IF action = "raise" THEN Amounts ELSE {0}) :
            /\ ProcessAction(player_id, action, amount)
            /\ UNCHANGED outer_vars

Next == NewHand \/ Act

Spec == Init /\ [][Next]_vars

\* a small table or a full one; the seats that have chips when the hand is
\* dealt are all of them, or all but the first or the last
NewDeal ==
    \E n \in {2, 3, MaxSeats - 1, MaxSeats} :
        \E playing \in {(0 .. (n - 1)) \ broke : broke \in {{}, {0}, {n - 1}}},
           shuffled \in ShuffleDeck(CreateDeck) :
            DealNewHand(n, playing, shuffled)

NextCards == NewDeal \/ AdvanceStreet \/ EndHandEarly

SpecCards == Init /\ [][NextCards]_vars

\* a session at one table: start_new_hand is called again and again with
\* the player ids of the first call, with fresh or with preserved chips
NewHandSameTable ==
    /\ hand_number < MaxSessionHands
    /\ \E n \in 2 .. MaxPlayers, starting_chips \in 1 .. MaxStartingChips,
          preserve_chips \in BOOLEAN :
           /\ game_state # NoGame => n = NumPlayers(game_state)
           /\ StartHand(n, starting_chips, preserve_chips)
           /\ UNCHANGED outer_vars

SpecSession == Init /\ [][NewHandSameTable]_vars

\* a session as _run_poker_game_a2a plays it: the first hand deals fresh
\* stacks, every later hand is started for the same players with
\* preserve_chips=True once the hand before has reached the showdown (the
\* stacks then come from that hand, whatever starting_chips is)
NewHandPreserved ==
    /\ hand_number < MaxPreservedHands
    /\ \E n \in 2 .. MaxPlayers, starting_chips \in 1 .. MaxStartingChips :
           /\ game_state # NoGame =>
                  /\ game_state.round = "showdown"
                  /\ n = NumPlayers(game_state)
                  /\ starting_chips = 1
           /\ StartHand(n, starting_chips, game_state # NoGame)
           /\ UNCHANGED outer_vars

SpecPreserved == Init /\ [][NewHandPreserved \/ Act]_vars

\* ---------------------------------------------------------------- EvaluationAgent
\* AgentConfig.max_actions_per_hand of the agents at the table
MaxActionsPerHand == 4

\* what "await request_action(...)" can give: None (no response, a
\* timeout, an error reply), an exception, data that is not a dict, a dict
\* without "action", and a dict with an action string, one of the five or
\* another one, and an amount
Responses ==
    {[kind |-> k] : k \in {"none", "exception", "malformed", "no_action"}}
        \cup {[kind |-> "decision", action |-> a, amount |-> m] :
                 a \in Actions \cup {"bet"}, m \in {0}}
        \cup {[kind |-> "decision", action |-> "raise", amount |-> m] :
                 m \in Amounts}

\* run_single_game: start_new_hand with fresh stacks, then _play_hand
RunSingleGame ==
    /\ play_pc \in {"idle", "done", "crashed"}
    /\ \E n \in 2 .. MaxPlayers, starting_chips \in 1 .. MaxStartingChips :
           StartNewHand(n, starting_chips, FALSE)
    /\ play_pc' = "loop"
    /\ response' = NoResponse
    /\ actions_taken' = 0
    /\ UNCHANGED agent_vars

\* the condition of the while-loop of _play_hand
PlayHandContinues ==
    /\ game_state.round # "showdown"
    /\ Cardinality(ActivePlayers(game_state)) > 1
    /\ actions_taken < MaxActionsPerHand

\* "if not current_player.is_active or current_player.chips <= 0"
CurrentPlayerSkipped ==
    \/ ~game_state.players[game_state.current_player].is_active
    \/ game_state.players[game_state.current_player].chips <= 0

\* the loop ends: final results, notify_game_end
PlayHandEnd ==
    /\ play_pc = "loop"
    /\ ~PlayHandContinues
    /\ play_pc' = "done"
    /\ UNCHANGED <<bet_vars, card_vars, response, actions_taken, agent_vars>>

\* the iteration that calls _next_player and continues
PlayHandSkip ==
    /\ play_pc = "loop"
    /\ PlayHandContinues
    /\ CurrentPlayerSkipped
    /\ game_state' = NextPlayer(game_state)
    /\ UNCHANGED <<dealer_position, hand_number, small_blind, big_blind,
                   chip_distribution_error, card_vars, play_vars, agent_vars>>

\* the iteration up to the answer of the agent of the current player
PlayHandRequest ==
    /\ play_pc = "loop"
    /\ PlayHandContinues
    /\ ~CurrentPlayerSkipped
    /\ response' \in Responses
    /\ play_pc' = "process"
    /\ UNCHANGED <<bet_vars, card_vars, actions_taken, agent_vars>>

\* action_data: {"action": "fold"} takes the place of None and of an
\* exception, and "fold" the place of a missing "action"
ActionData ==
    IF response.kind \in {"none", "exception", "no_action"}
    THEN [action |-> "fold", amount |-> 0]
    ELSE [action |-> response.action, amount |-> response.amount]

\* the rest of the iteration: data that is not a dict has no get and the
\* AttributeError leaves _play_hand; Action(...) raises ValueError for an
\* unknown string, which is logged; otherwise process_action is called
\* for the current player and a success is counted. Then the hand timeout
\* has passed (timed_out) or not
PlayHandProcess(timed_out) ==
    /\ play_pc = "process"
    /\ response' = NoResponse
    /\ UNCHANGED agent_vars
    /\ IF response.kind = "malformed"
       THEN /\ play_pc' = "crashed"
            /\ UNCHANGED <<bet_vars, card_vars, actions_taken>>
       ELSE /\ play_pc' = IF timed_out THEN "done" ELSE "loop"
            /\ IF ActionData.action \notin Actions
               THEN UNCHANGED <<bet_vars, card_vars, actions_taken>>
               ELSE /\ ProcessAction(game_state.current_player,
                                     ActionData.action, ActionData.amount)
                    /\ actions_taken' =
                           IF Validate(game_state, game_state.current_player,
                                       ActionData.action, ActionData.amount)
                                  = "success"
                           THEN actions_taken + 1
                           ELSE actions_taken

NextPlay ==
    \/ RunSingleGame
    \/ PlayHandEnd
    \/ PlayHandSkip
    \/ PlayHandRequest
    \/ PlayHandProcess(FALSE)
    \/ PlayHandProcess(TRUE)

SpecPlay == Init /\ [][NextPlay]_vars

\* ---------------------------------------------------------------- agent state
\* the number of configured white agents
MaxAgents == 2

\* the number of ids uuid4 hands out
MaxContextIds == 5

\* the number of different tournament summaries
MaxSummaries == 1

\* the keys of white_agents
WhiteAgents == 0 .. (MaxAgents - 1)

\* the agent ids the methods are called with: the configured ones and one
\* that is not configured
AgentIds == 0 .. MaxAgents

\* d[k] = v for a dict d
Put(d, k, v) == [x \in (DOMAIN d) \cup {k} |-> IF x = k THEN v ELSE d[x]]

\* d.get(k, default)
Get(d, k, default) == IF k \in DOMAIN d THEN d[k] ELSE default

\* str(uuid.uuid4()), the n-th time it is called: an id that no earlier
\* call has returned
Uuid4(n) == n

\* initialize_agent_state(agent_id, send_task_description): the context
\* id is created if there is none; the task description is sent to an
\* agent not yet initialized, and the agent is marked once it has answered
\* (delivered), while a failure is raised again
InitializeAgentState(agent_id, send_task_description, delivered) ==
    /\ agent_id \in WhiteAgents
    /\ IF agent_id \notin DOMAIN agent_contexts
       THEN /\ issued < MaxContextIds
            /\ agent_contexts' = Put(agent_contexts, agent_id, Uuid4(issued + 1))
            /\ issued' = issued + 1
       ELSE UNCHANGED <<agent_contexts, issued>>
    /\ IF /\ send_task_description
          /\ ~Get(agent_initialized, agent_id, FALSE)
          /\ delivered
       THEN agent_initialized' = Put(agent_initialized, agent_id, TRUE)
       ELSE UNCHANGED agent_initialized
    /\ UNCHANGED agent_memory

\* reset_agent_state keeping the context id
ResetAgentState_KeepsContext(agent_id, clear_memory) ==
    /\ agent_id \in WhiteAgents
    /\ agent_id \in DOMAIN agent_contexts
    /\ agent_initialized' = Put(agent_initialized, agent_id, FALSE)
    /\ UNCHANGED <<agent_contexts, issued, agent_memory>>

\* what reset_agent_state(agent_id, clear_memory) makes of the agent
\* state when uuid4 has been called n times
AfterReset(state, agent_id, clear_memory) ==
    [contexts |-> Put(state.contexts, agent_id, Uuid4(state.issued + 1)),
     initialized |-> Put(state.initialized, agent_id, FALSE),
     memory |-> IF clear_memory /\ agent_id \in DOMAIN state.memory
                THEN Put(state.memory, agent_id, <<>>)
                ELSE state.memory,
     issued |-> state.issued + 1]

\* the agent state as one record
AgentState ==
    [contexts |-> agent_contexts, initialized |-> agent_initialized,
     memory |-> agent_memory, issued |-> issued]

\* the agent state becomes state
SetAgentState(state) ==
    /\ agent_contexts' = state.contexts
    /\ agent_initialized' = state.initialized
    /\ agent_memory' = state.memory
    /\ issued' = state.issued

\* reset_agent_state(agent_id, clear_memory)
ResetAgentState(agent_id, clear_memory) ==
    /\ agent_id \in WhiteAgents
    /\ issued < MaxContextIds
    /\ SetAgentState(AfterReset(AgentState, agent_id, clear_memory))

\* the loop of reset_all_agent_states from the agent agent_id on, in the
\* order of white_agents
RECURSIVE ResetFrom(_, _, _)
ResetFrom(state, agent_id, clear_memory) ==
    IF agent_id \notin WhiteAgents THEN state
    ELSE ResetFrom(AfterReset(state, agent_id, clear_memory), agent_id + 1,
                   clear_memory)

\* reset_all_agent_states(clear_memory)
ResetAllAgentStates(clear_memory) ==
    /\ issued + MaxAgents <= MaxContextIds
    /\ SetAgentState(ResetFrom(AgentState, 0, clear_memory))

\* share_tournament_summary(agent_id, summary): the summary is remembered
\* once, then sent to the agent; sending creates the context id if there
\* is none and the agent is ready (delivered)
ShareTournamentSummary(agent_id, summary, delivered) ==
    /\ agent_id \in WhiteAgents
    /\ LET memory == Get(agent_memory, agent_id, <<>>)
       IN agent_memory' =
              Put(agent_memory, agent_id,
                  IF \E k \in DOMAIN memory : memory[k] = summary
                  THEN memory
                  ELSE Append(memory, summary))
    /\ IF delivered /\ agent_id \notin DOMAIN agent_contexts
       THEN /\ issued < MaxContextIds
            /\ agent_contexts' = Put(agent_contexts, agent_id, Uuid4(issued + 1))
            /\ issued' = issued + 1
       ELSE UNCHANGED <<agent_contexts, issued>>
    /\ UNCHANGED agent_initialized

\* a call with an agent id that is not configured logs an error and returns
AgentNotFound(agent_id) ==
    /\ agent_id \notin WhiteAgents
    /\ UNCHANGED agent_vars

NextAgents ==
    /\ UNCHANGED <<bet_vars, card_vars, play_vars>>
    /\ \E agent_id \in AgentIds, flag \in BOOLEAN, delivered \in BOOLEAN :
          \/ InitializeAgentState(agent_id, flag, delivered)
          \/ ResetAgentState(agent_id, flag)
          \/ ResetAllAgentStates(flag)
          \/ \E summary \in 1 .. MaxSummaries :
                ShareTournamentSummary(agent_id, summary, delivered)
          \/ AgentNotFound(agent_id)

SpecAgents == Init /\ [][NextAgents]_vars

\* the ranks of five cards, lowest first
RankLists ==
    {r \in [1 .. 5 -> Ranks] : \A k \in 1 .. 4 : r[k] <= r[k + 1]}

\* the suits of the five cards, as positions in Suits: all different where
\* they can be, all the same, and four the same
SuitPatterns == {<<1, 2, 3, 4, 1>>, <<1, 1, 1, 1, 1>>, <<1, 1, 1, 1, 2>>}

\* hands of five distinct cards
FiveCardHands ==
    {h \in {[k \in 1 .. 5 |-> [rank |-> r[k], suit |-> Suits[p[k]]]] :
               r \in RankLists, p \in SuitPatterns} :
        Cardinality(CardsIn(h)) = 5}

\* an engine that is handed five cards to evaluate
InitHands ==
    /\ game_state = NoGame
    /\ dealer_position = 0
    /\ hand_number = 0
    /\ \E b \in BlindLevels : small_blind = b[1] /\ big_blind = b[2]
    /\ chip_distribution_error = FALSE
    /\ deck = <<>>
    /\ hole_cards = <<>>
    /\ community_cards = <<>>
    /\ round = "none"
    /\ NoOrchestrator
    /\ all_cards \in FiveCardHands
    /\ hand_rank = NoHandRank

SpecHands == InitHands /\ [][RankHand]_vars

\* ---------------------------------------------------------------- claims
GS == game_state

InHand == GS.round # "none"

Calls ==
    {c \in PlayerIds \X Actions \X Amounts : c[2] = "raise" \/ c[3] = 0}

\* the call c is accepted in the current state
Accepted(c) == Validate(GS, c[1], c[2], c[3]) = "success"

\* this step is the call c
Step(c) == ProcessAction(c[1], c[2], c[3])

\* the chips on the table: the stacks and the pot
ChipsInPlay(gs) == TotalChips(gs) + gs.pot

\* C1 - chip conservation within a hand: start_new_hand leaves the stacks
\* and the pot summing to the chips the players were given before the
\* blinds, and no process_action call, accepted or rejected, changes that sum
C1_ChipConservation ==
    [][IF hand_number' # hand_number
       THEN \A n \in 2 .. MaxPlayers, starting_chips \in 1 .. MaxStartingChips,
               preserve_chips \in BOOLEAN :
                StartNewHand(n, starting_chips, preserve_chips) =>
                    ChipsInPlay(GS') =
                        SumOver([i \in 0 .. (n - 1) |->
                                    StartChips(GS, i, starting_chips,
                                               preserve_chips)],
                                0 .. (n - 1))
       ELSE ChipsInPlay(GS') = ChipsInPlay(GS)]_vars

\* a hand shown down on the river with several players, after a fold, in
\* which the players started with different stacks
C1_Witness ==
    /\ GS.round = "showdown"
    /\ GS.pot = 0
    /\ Cardinality(ActivePlayers(GS)) >= 2
    /\ \E i \in Seats(GS) : ~GS.players[i].is_active
    /\ \E i, j \in Seats(GS) :
          GS.players[i].total_bet > GS.players[j].total_bet
               /\ GS.players[j].total_bet > 0

\* this step of a hand ran _determine_winner: it changed the state and
\* either left the river for the showdown or ended with one active player
DeterminedWinner ==
    /\ GS' # GS
    /\ hand_number' = hand_number
    /\ GS'.round = "showdown"
    /\ GS.round = "river" \/ Cardinality(ActivePlayers(GS')) <= 1

\* C2 - exact payout: whenever _determine_winner runs, the pot is 0
\* afterwards, the stacks hold every chip that was in the stacks and the
\* pot, and the CHIP DISTRIBUTION ERROR branch has not been taken
C2_ExactPayout ==
    [][DeterminedWinner =>
          /\ GS'.pot = 0
          /\ TotalChips(GS') = ChipsInPlay(GS)
          /\ chip_distribution_error' = FALSE]_vars

\* a side-pot showdown: several active players with different total bets,
\* paid out, one of them holding more than they had put in
C2_Witness ==
    /\ GS.round = "showdown"
    /\ GS.pot = 0
    /\ Len(AllInAmounts(GS, ActivePlayers(GS))) > 1
    /\ \E i \in ActivePlayers(GS) : GS.players[i].chips > GS.players[i].total_bet

\* C3 - a rejected action has no side effect: a process_action call that
\* returns an error leaves the whole game state as it was
C3_RejectedHasNoEffect ==
    [][GS' # GS => \A c \in Calls : ~Accepted(c) => ~Step(c)]_vars

\* a state in which one player's check and too small a raise are refused
\* and another player is refused out of turn, with chips in the pot
C3_Witness ==
    /\ InHand
    /\ GS.pot > 0
    /\ \E i \in Seats(GS) :
          /\ Validate(GS, i, "check", 0) = "Cannot check when there's a bet to call"
          /\ Validate(GS, i, "raise", GS.players[i].current_bet) =
                 "Raise amount must be greater than current bet"
    /\ \E i \in Seats(GS) : Validate(GS, i, "fold", 0) = "Not your turn"

\* C4 - acting on a finished hand is rejected: once the round is
\* "showdown" every process_action call is refused, and no stack and not
\* the pot change until the next start_new_hand
C4_FinishedHandRejects ==
    [][(GS.round = "showdown" /\ hand_number' = hand_number) =>
          /\ \A c \in Calls : ~Accepted(c)
          /\ ChipsOf(GS') = ChipsOf(GS)
          /\ GS'.pot = GS.pot]_vars

\* the raise-to amount is above the player's own bet, below the minimum
\* raise and below what the player in turn can afford
BelowMinimumRaise(i, amount) ==
    /\ InHand
    /\ i = GS.current_player
    /\ CanAct(GS, i)
    /\ amount > GS.players[i].current_bet
    /\ amount < GS.current_bet + GS.minimum_raise
    /\ amount < GS.players[i].current_bet + GS.players[i].chips

\* C5 - minimum raise enforcement: a raise below the minimum by a player
\* who could afford the minimum is refused and moves no chips
C5_RaiseBelowMinimumRejected ==
    [][\A i \in PlayerIds, amount \in Amounts :
          (BelowMinimumRaise(i, amount) /\ ProcessAction(i, "raise", amount)) =>
              /\ Validate(GS, i, "raise", amount) # "success"
              /\ GS' = GS]_vars

\* what seat i can win at most: from every player, folded or not, no more
\* than seat i has put in
SidePotBound(gs, i) ==
    SumOver([q \in Seats(gs) |->
                Min(gs.players[q].total_bet, gs.players[i].total_bet)],
            Seats(gs))

\* the chips seat i received in this step, beyond what it wagered in it
Received(i) ==
    (GS'.players[i].chips - GS.players[i].chips)
    + (GS'.players[i].total_bet - GS.players[i].total_bet)

\* C6 - side-pot eligibility: at a showdown between two or more active
\* players nobody receives more than min(total_bet[q], total_bet[p]) summed
\* over all players q
C6_SidePotEligibility ==
    [][(/\ hand_number' = hand_number
        /\ GS.round = "river"
        /\ GS'.round = "showdown"
        /\ Cardinality(ActivePlayers(GS')) >= 2) =>
          \A i \in Seats(GS) : Received(i) <= SidePotBound(GS', i)]_vars

\* C7 - turn pointer validity: before the showdown, while somebody can act
\* and the round is not complete, current_player is a player who can act
C7_TurnPointerValid ==
    (/\ InHand
     /\ GS.round # "showdown"
     /\ \E i \in Seats(GS) : CanAct(GS, i)
     /\ ~IsRoundComplete(GS)) =>
        CanAct(GS, GS.current_player)

\* the players who can act and have not acted in this round
StillToAct(gs) ==
    {i \in Seats(gs) : CanAct(gs, i) /\ ~gs.players[i].has_acted_this_round}

\* C8 - checked-around rounds complete: after the flop, with no bet and at
\* least two players able to act, a check by the player in turn passes the
\* turn to the next player in seat order who has not checked yet, and the
\* check of the last of them deals the next street or reaches the showdown
C8_CheckedAroundCompletes ==
    [][(/\ InHand
        /\ GS.round \in {"flop", "turn", "river"}
        /\ GS.current_bet = 0
        /\ Cardinality({i \in Seats(GS) : CanAct(GS, i)}) >= 2
        /\ CanAct(GS, GS.current_player)
        /\ GS.current_player \in StillToAct(GS)
        /\ ProcessAction(GS.current_player, "check", 0)) =>
          IF StillToAct(GS) = {GS.current_player}
          THEN GS'.round # GS.round
          ELSE /\ GS'.round = GS.round
               /\ GS'.current_player =
                     FirstClockwise(GS, (GS.current_player + 1) % NumPlayers(GS),
                                    StillToAct(GS) \ {GS.current_player})]_vars

\* C9 - heads-up seating: in the first hand of two players seat 0 posts the
\* small blind, seat 1 the big blind, and seat 0 is first to act, so that
\* its first action is accepted
C9_HeadsUpSeating ==
    [][\A starting_chips \in 1 .. MaxStartingChips, preserve_chips \in BOOLEAN :
          (hand_number = 0 /\ StartNewHand(2, starting_chips, preserve_chips)) =>
              /\ GS'.players[0].total_bet = Min(small_blind, starting_chips)
              /\ GS'.players[1].total_bet = Min(big_blind, starting_chips)
              /\ GS'.current_player = 0
              /\ (starting_chips > small_blind =>
                     Validate(GS', 0, "fold", 0) = "success")]_vars

\* the seat that posted the big blind
BigBlindSeat(gs) == (gs.dealer_position + 2) % NumPlayers(gs)

\* every player but the big blind who can act has acted and matched the
\* bet, nobody has raised, and the big blind can act and has not acted
BigBlindOption(gs) ==
    LET bb_pos == BigBlindSeat(gs)
    IN /\ gs.round = "preflop"
       /\ CanAct(gs, bb_pos)
       /\ ~gs.players[bb_pos].has_acted_this_round
       /\ gs.current_bet = gs.players[bb_pos].current_bet
       /\ \A i \in Seats(gs) \ {bb_pos} :
             CanAct(gs, i) =>
                 /\ gs.players[i].has_acted_this_round
                 /\ gs.players[i].current_bet = gs.current_bet

\* C10 - big-blind option: when the last player before the big blind has
\* called and nobody has raised, the big blind is the current player, still
\* before the flop, and its check and its raise are accepted
C10_BigBlindOption ==
    [][\A i \in PlayerIds :
          (/\ InHand
           /\ GS.round = "preflop"
           /\ Accepted(<<i, "call", 0>>)
           /\ ProcessAction(i, "call", 0)
           /\ BigBlindOption(Call(GS, i))) =>
              /\ GS'.round = "preflop"
              /\ GS'.current_player = BigBlindSeat(GS)
              /\ Validate(GS', BigBlindSeat(GS), "check", 0) = "success"
              /\ Validate(GS', BigBlindSeat(GS), "raise",
                          GS'.current_bet + GS'.minimum_raise) = "success"]_vars

\* the largest current_bet of a player
MaxPlayerBet(gs) == SetMax({gs.players[i].current_bet : i \in Seats(gs)})

\* C11 - table bet level: within a betting round of a hand the table
\* current_bet never decreases, and in every state of a hand before the
\* showdown it is the largest current_bet of a player
C11_TableBetLevel ==
    [][/\ (hand_number' = hand_number /\ GS'.round = GS.round) =>
              GS'.current_bet >= GS.current_bet
       /\ GS'.round \notin {"none", "showdown"} =>
              GS'.current_bet = MaxPlayerBet(GS')]_vars

\* C12 - all-in flag completeness: before the showdown no active player
\* has wagered its last chip without being marked all-in
C12_AllInFlagComplete ==
    (InHand /\ GS.round # "showdown") =>
        \A i \in Seats(GS) :
            ~(/\ GS.players[i].is_active
              /\ GS.players[i].chips = 0
              /\ GS.players[i].total_bet > 0
              /\ ~GS.players[i].is_all_in)

\* this step is an accepted raise of seat i to amount, an amount between
\* the minimum raise and what seat i can afford
RaiseInRange(i, amount) ==
    /\ InHand
    /\ Accepted(<<i, "raise", amount>>)
    /\ amount >= GS.current_bet + GS.minimum_raise
    /\ amount <= GS.players[i].current_bet + GS.players[i].chips
    /\ ProcessAction(i, "raise", amount)

\* what the claim says of the state after a raise of seat i to amount
RaisedTo(i, amount) ==
    LET increment == amount - GS.players[i].current_bet
    IN /\ GS'.players[i].current_bet = amount
       /\ GS'.players[i].chips = GS.players[i].chips - increment
       /\ GS'.pot = GS.pot + increment
       /\ GS'.current_bet = amount
       /\ GS'.minimum_raise = amount - GS.current_bet

\* C13 - raise-to semantics, for a raise that leaves the betting round
\* open: the raiser's current_bet is the raise-to amount, the raiser's
\* chips went down and the pot up by the amount less the raiser's
\* previous bet, the table current_bet is the amount and minimum_raise is
\* the amount less the previous table current_bet
C13_RaiseToSemantics ==
    [][\A i \in PlayerIds, amount \in Amounts :
          (/\ RaiseInRange(i, amount)
           /\ ~IsRoundComplete(AfterAction(GS, i, "raise", amount))) =>
              RaisedTo(i, amount)]_vars

\* C13 as stated: the same after every accepted raise in that range
C13_AfterEveryRaise ==
    [][\A i \in PlayerIds, amount \in Amounts :
          RaiseInRange(i, amount) => RaisedTo(i, amount)]_vars

\* a raise has just been made by a player who keeps chips: that player
\* alone stands at the table bet, and another player has to answer it
C13_Witness ==
    /\ InHand
    /\ GS.round # "showdown"
    /\ \E i \in Seats(GS) :
          /\ CanAct(GS, i)
          /\ GS.players[i].has_acted_this_round
          /\ GS.players[i].current_bet = GS.current_bet
          /\ \A j \in Seats(GS) \ {i} :
                GS.players[j].current_bet < GS.current_bet
          /\ \E j \in Seats(GS) \ {i} :
                CanAct(GS, j) /\ ~GS.players[j].has_acted_this_round
          /\ GS.minimum_raise > 0

\* the players who have to answer the table bet: they can act, are below
\* the table current_bet and have not acted since it was made
Reopened(gs) ==
    {j \in Seats(gs) :
        /\ CanAct(gs, j)
        /\ gs.players[j].current_bet < gs.current_bet
        /\ ~gs.players[j].has_acted_this_round}

\* this step is an accepted raise of seat i, or an accepted all-in of seat
\* i for more than the table current_bet
RaisesBet(i) ==
    /\ InHand
    /\ \/ \E amount \in Amounts :
             /\ Accepted(<<i, "raise", amount>>)
             /\ ProcessAction(i, "raise", amount)
       \/ /\ Accepted(<<i, "all_in", 0>>)
          /\ GS.players[i].current_bet + GS.players[i].chips > GS.current_bet
          /\ ProcessAction(i, "all_in", 0)

\* C14 - a raise reopens the betting: after an accepted raise, or all-in
\* above the table bet, every other player who can act and is below the new
\* table current_bet has has_acted_this_round false; and while such a
\* player has not acted the round does not change, unless by the action of
\* the last of them
C14_RaiseReopensBetting ==
    [][(hand_number' = hand_number /\ GS' # GS) =>
       /\ \A i \in PlayerIds :
             RaisesBet(i) =>
                 /\ \A j \in Seats(GS') \ {i} :
                       (CanAct(GS', j)
                          /\ GS'.players[j].current_bet < GS'.current_bet) =>
                           ~GS'.players[j].has_acted_this_round
                 /\ Reopened(GS') \ {i} # {} => GS'.round = GS.round
       /\ (/\ hand_number' = hand_number
           /\ Reopened(GS) # {}
           /\ GS'.round # GS.round) =>
              Reopened(GS) = {GS.current_player}]_vars

\* three players before the flop: the first to act had called, a blind
\* has raised since, and the caller has to act again
C14_Witness ==
    /\ InHand
    /\ GS.round = "preflop"
    /\ NumPlayers(GS) = 3
    /\ LET utg == GS.dealer_position
       IN /\ CanAct(GS, utg)
          /\ GS.players[utg].current_bet > 0
          /\ GS.players[utg].current_bet < GS.current_bet
          /\ ~GS.players[utg].has_acted_this_round
          /\ \E i \in Seats(GS) \ {utg} :
                /\ GS.players[i].has_acted_this_round
                /\ GS.players[i].current_bet = GS.current_bet

\* this step is an accepted call of seat i, whose chips do not cover the call
ShortCall(i) ==
    /\ InHand
    /\ Accepted(<<i, "call", 0>>)
    /\ GS.players[i].chips < GS.current_bet - GS.players[i].current_bet
    /\ ProcessAction(i, "call", 0)

\* C15 - auto all-in on an insufficient call: the caller has wagered
\* exactly its remaining chips and is all-in; unless the hand was paid out
\* in the same call, its chips are 0 and the pot has grown by them; and when
\* the call leaves the betting round open, the table current_bet and
\* minimum_raise are as before
C15_ShortCallIsAllIn ==
    [][\A i \in PlayerIds :
          ShortCall(i) =>
              /\ GS'.players[i].is_all_in
              /\ GS'.players[i].total_bet =
                     GS.players[i].total_bet + GS.players[i].chips
              /\ GS'.round # "showdown" =>
                     /\ GS'.players[i].chips = 0
                     /\ GS'.pot = GS.pot + GS.players[i].chips
              /\ ~IsRoundComplete(AfterAction(GS, i, "call", 0)) =>
                     /\ GS'.current_bet = GS.current_bet
                     /\ GS'.minimum_raise = GS.minimum_raise]_vars

\* C15 as stated: after every such call the chips are in the pot, the
\* caller has none and is all-in, and the table current_bet and
\* minimum_raise are unchanged
C15_AfterEveryShortCall ==
    [][\A i \in PlayerIds :
          ShortCall(i) =>
              /\ GS'.players[i].is_all_in
              /\ GS'.players[i].chips = 0
              /\ GS'.pot = GS.pot + GS.players[i].chips
              /\ GS'.current_bet = GS.current_bet
              /\ GS'.minimum_raise = GS.minimum_raise]_vars

\* a player has called for less than the bet and is all-in below it, while
\* another player still has to answer the bet
C15_Witness ==
    /\ InHand
    /\ GS.round # "showdown"
    /\ Reopened(GS) # {}
    /\ \E i \in Seats(GS) :
          /\ GS.players[i].is_active
          /\ GS.players[i].is_all_in
          /\ GS.players[i].has_acted_this_round
          /\ GS.players[i].chips = 0
          /\ GS.players[i].current_bet > 0
          /\ GS.players[i].current_bet < GS.current_bet

\* C16 - pot accounting: in every state of a hand before the showdown the
\* pot is the sum of total_bet over all players, folded ones included, and
\* a call that advances to the next betting round leaves the pot as the
\* action made it
C16_PotAccounting ==
    [][/\ GS'.round \notin {"none", "showdown"} =>
              GS'.pot = SumOver(TotalBetOf(GS'), Seats(GS'))
       /\ (/\ hand_number' = hand_number
           /\ GS'.round # GS.round
           /\ GS'.round # "showdown") =>
              \A c \in Calls :
                  (Accepted(c) /\ Step(c)) =>
                      GS'.pot = AfterAction(GS, c[1], c[2], c[3]).pot]_vars

\* a later betting round with chips in the pot from a player who has
\* folded and from players who have put in different amounts
C16_Witness ==
    /\ GS.round \in {"flop", "turn", "river"}
    /\ \E i \in Seats(GS) :
          ~GS.players[i].is_active /\ GS.players[i].total_bet > 0
    /\ \E i, j \in ActivePlayers(GS) :
          GS.players[i].total_bet > GS.players[j].total_bet
    /\ GS.pot > 0

\* C17 - player invariants: every player has chips >= 0, current_bet >= 0,
\* total_bet >= 0 and current_bet <= total_bet, in every state
C17_PlayerInvariants ==
    \A i \in Seats(GS) :
        /\ GS.players[i].chips >= 0
        /\ GS.players[i].current_bet >= 0
        /\ GS.players[i].total_bet >= 0
        /\ GS.players[i].current_bet <= GS.players[i].total_bet

\* a later betting round in which a player has bet again, less than it has
\* put in over the hand, and a player has no chips left
C17_Witness ==
    /\ GS.round \in {"flop", "turn", "river"}
    /\ \E i \in Seats(GS) :
          /\ GS.players[i].current_bet > 0
          /\ GS.players[i].current_bet < GS.players[i].total_bet
    /\ \E i \in Seats(GS) : GS.players[i].chips = 0

\* C18 - the community cards match the round: none before the flop, 3 on
\* the flop, 4 on the turn, 5 on the river and 5 at the showdown, an early
\* showdown included
C18_BoardMatchesRound ==
    /\ round = "preflop" => Len(community_cards) = 0
    /\ round = "flop" => Len(community_cards) = 3
    /\ round = "turn" => Len(community_cards) = 4
    /\ round = "river" => Len(community_cards) = 5
    /\ round = "showdown" => Len(community_cards) = 5

\* the places a card can be: the deck, the board, the hand of each seat
Piles ==
    <<deck, community_cards>>
    \o [k \in 1 .. Cardinality(DOMAIN hole_cards) |-> hole_cards[k - 1]]

\* C19 - card integrity: create_deck yields 52 distinct (rank, suit) cards,
\* and in every state of a hand the deck, the hole cards and the community
\* cards are pairwise disjoint and together exactly those 52 cards
C19_CardIntegrity ==
    /\ Len(CreateDeck) = 52
    /\ Cardinality(CardsIn(CreateDeck)) = 52
    /\ \A k \in DOMAIN CreateDeck :
          CreateDeck[k].rank \in Ranks /\ CreateDeck[k].suit \in CardsIn(Suits)
    /\ round # "none" =>
          /\ \A p \in DOMAIN Piles :
                Cardinality(CardsIn(Piles[p])) = Len(Piles[p])
          /\ \A p, q \in DOMAIN Piles :
                p # q => CardsIn(Piles[p]) \cap CardsIn(Piles[q]) = {}
          /\ UNION {CardsIn(Piles[p]) : p \in DOMAIN Piles} = CardsIn(CreateDeck)

\* a hand ended early whose board was completed from the deck, with cards
\* left in the deck and a seat that was dealt none
C19_Witness ==
    /\ round = "showdown"
    /\ Len(community_cards) = 5
    /\ Len(deck) > 0
    /\ \E i \in DOMAIN hole_cards : Len(hole_cards[i]) = 2
    /\ \E i \in DOMAIN hole_cards : Len(hole_cards[i]) = 0

C21_MinimumRaiseReset ==
    [][/\ hand_number' # hand_number =>
              GS'.minimum_raise = big_blind - small_blind
       /\ (/\ hand_number' = hand_number
           /\ GS'.round # GS.round
           /\ GS'.round \in {"flop", "turn", "river"}) =>
              GS'.minimum_raise = big_blind - small_blind]_vars

\* C22 - dealer rotation and hand numbering: at a table that is always
\* started with the same n players, the k-th start_new_hand makes
\* hand_number k and puts the dealer on seat (k - 1) mod n
C22_DealerRotation ==
    [][/\ hand_number' = hand_number + 1
       /\ dealer_position' = (hand_number' - 1) % NumPlayers(GS')
       /\ GS'.dealer_position = dealer_position']_vars

\* the fifth hand at a table of three: the dealer has gone round the table
\* once and is on seat 1 again
C22_Witness ==
    /\ hand_number = 5
    /\ NumPlayers(GS) = 3
    /\ dealer_position = 1
    /\ GS.dealer_position = 1

\* this step starts the next hand with preserve_chips=True for the players
\* of the hand before, which has reached the showdown
PreservedStart ==
    /\ hand_number' # hand_number
    /\ GS.round = "showdown"
    /\ StartHand(NumPlayers(GS), 1, TRUE)

\* C23 - chip conservation across a session: a hand started with
\* preserve_chips=True for the same players after a showdown gives every
\* player, before the blinds, the chips held at the end of the hand before,
\* and the stacks and the pot together hold what they held before, as they
\* do on every step inside a hand
C23_SessionChipConservation ==
    [][/\ PreservedStart =>
              /\ \A i \in Seats(GS) :
                    GS'.players[i].chips + GS'.players[i].total_bet =
                        GS.players[i].chips
              /\ ChipsInPlay(GS') = ChipsInPlay(GS)
       /\ hand_number' = hand_number => ChipsInPlay(GS') = ChipsInPlay(GS)]_vars

\* the orders in which the deck of a hand may have been shuffled
Shuffles == ShuffleDeck(CreateDeck)

\* the cards the seats of gs hold when the hand was dealt from shuffled
HolesOf(gs, shuffled) ==
    DealHoleCardsTo(shuffled, NumPlayers(gs),
                    {i \in Seats(gs) : gs.players[i].cards > 0})

\* the board of gs in that hand
BoardOf(gs, shuffled) ==
    DealCards(HolesOf(gs, shuffled).deck, gs.community_cards).dealt

\* deals that differ from holes only in the cards of the seats other than
\* p: each of them holds its two cards the other way round, or holds the
\* next two cards of the undealt deck d instead
OtherDeals(holes, d, p) ==
    LET others == {i \in DOMAIN holes : i # p /\ Len(holes[i]) = 2}
        turn(i) == Cardinality({j \in others : j <= i})
    IN {[i \in DOMAIN holes |->
            IF i \in others THEN Reverse(holes[i]) ELSE holes[i]],
        [i \in DOMAIN holes |->
            IF i \in others
            THEN SubSeq(d, 2 * turn(i) - 1, 2 * turn(i))
            ELSE holes[i]]}

\* the view of player p in the current state when the hand was dealt from
\* shuffled and the seats hold holes
ViewOf(p, shuffled, holes) ==
    GetGameStateForPlayer(GS, hand_number, holes, BoardOf(GS, shuffled), p)

\* C24 - hole-card confidentiality of the player view: whatever cards the
\* other seats hold, the view of a player is the same, and at most one
\* player's view says it is their turn
C24_ViewConfidential ==
    InHand =>
        /\ \A p \in Seats(GS), shuffled \in Shuffles :
              LET dealt == HolesOf(GS, shuffled)
              IN \A other \in OtherDeals(dealt.cards, dealt.deck, p) :
                    ViewOf(p, shuffled, other) = ViewOf(p, shuffled, dealt.cards)
        /\ \A shuffled \in Shuffles :
              Cardinality({p \in Seats(GS) :
                  ViewOf(p, shuffled, HolesOf(GS, shuffled).cards).is_your_turn})
                  <= 1

\* the flop of a hand of three: it is the turn of a player who holds two
\* cards, and the two other seats could hold other cards than they do
C24_Witness ==
    /\ GS.round = "flop"
    /\ NumPlayers(GS) = 3
    /\ \E p \in Seats(GS), shuffled \in Shuffles :
          LET dealt == HolesOf(GS, shuffled)
              view == ViewOf(p, shuffled, dealt.cards)
          IN /\ view.is_your_turn
             /\ Len(view.your_cards) = 2
             /\ Len(view.community_cards) = 3
             /\ \E other \in OtherDeals(dealt.cards, dealt.deck, p) :
                   \A i \in Seats(GS) \ {p} :
                       CardsIn(other[i]) \cap CardsIn(dealt.cards[i]) = {}

\* C25 - fold is always available to the player in turn: in a hand in
\* progress a fold of the current player, active and not all-in, is
\* accepted, with chips or without, and without chips every other action
\* of that player is refused
C25_FoldAlwaysAvailable ==
    (InHand /\ GS.round # "showdown") =>
        \A i \in Seats(GS) :
            (/\ GS.current_player = i
             /\ GS.players[i].is_active
             /\ ~GS.players[i].is_all_in) =>
                /\ Accepted(<<i, "fold", 0>>)
                /\ GS.players[i].chips = 0 =>
                      \A c \in Calls : (c[1] = i /\ c[2] # "fold") => ~Accepted(c)

\* this step is an accepted fold of seat i after which seat w is the only
\* active player
FoldLeaves(i, w) ==
    /\ InHand
    /\ hand_number' = hand_number
    /\ GS' # GS
    /\ Accepted(<<i, "fold", 0>>)
    /\ Step(<<i, "fold", 0>>)
    /\ ActivePlayers(GS) \ {i} = {w}

\* C26 - fold-out payout: the fold that leaves one active player sets the
\* round to "showdown", adds the whole pot to that player's chips, empties
\* the pot and changes no other player's chips
C26_FoldOutPayout ==
    [][\A i, w \in PlayerIds :
          FoldLeaves(i, w) =>
              /\ GS'.round = "showdown"
              /\ GS'.pot = 0
              /\ GS'.players[w].chips = GS.players[w].chips + GS.pot
              /\ \A j \in Seats(GS) \ {w} :
                    GS'.players[j].chips = GS.players[j].chips]_vars

\* a hand of three ended by a fold, the board dealt out: every player had
\* chips in the pot and the last one active holds more than they put in
C26_Witness ==
    /\ GS.round = "showdown"
    /\ GS.pot = 0
    /\ GS.community_cards = 5
    /\ NumPlayers(GS) = 3
    /\ Cardinality(ActivePlayers(GS)) = 1
    /\ \A i \in Seats(GS) : GS.players[i].total_bet > 0
    /\ \E w \in ActivePlayers(GS) :
          GS.players[w].chips > GS.players[w].total_bet

\* the state in which the call c, which ends the hand with two or more
\* active players, reaches _determine_winner
AtShowdown(c) ==
    BeforeDetermineWinner(AfterAction(GS, c[1], c[2], c[3]),
                          small_blind, big_blind)

\* the current player's calls that end the hand by comparing the hands
ShowdownCalls ==
    {c \in Calls :
        c[1] = GS.current_player /\ ComparesHands(c[1], c[2], c[3])}

\* this step is the call c, the hands comparing as ranks
ShowsDown(c, ranks) == ProcessActionDealt(c[1], c[2], c[3], ranks)

\* the active players holding the best hand
Tied(gs, ranks) ==
    {i \in ActivePlayers(gs) :
        \A j \in ActivePlayers(gs) : ranks[j] <= ranks[i]}

\* the players of S have put the same amount into the pot
EqualTotalBet(gs, S) ==
    \A i, j \in S : gs.players[i].total_bet = gs.players[j].total_bet

\* the tied players share the pot equally, the odd chips go to the one of
\* them earliest in seat order, and nobody else receives anything
SplitEqually(gs, ranks) ==
    LET tied == Tied(gs, ranks)
        k == Cardinality(tied)
    IN \A i \in Seats(gs) :
          GS'.players[i].chips =
              gs.players[i].chips
              + (IF i \in tied THEN gs.pot \div k ELSE 0)
              + (IF i = SetMin(tied) THEN gs.pot % k ELSE 0)

C28_FoldIsPermanent ==
    [][(InHand /\ hand_number' = hand_number) =>
          \A i \in Seats(GS) :
              ~GS.players[i].is_active =>
                  /\ \A c \in Calls : c[1] = i => ~Accepted(c)
                  /\ ~GS'.players[i].is_active
                  /\ GS'.players[i].chips = GS.players[i].chips]_vars

\* a hand of three shown down by two players for a pot the third one paid
\* into before folding: the pot is paid, one of the two holds more than
\* they put in and the folded player is not in turn
C28_Witness ==
    /\ GS.round = "showdown"
    /\ GS.pot = 0
    /\ NumPlayers(GS) = 3
    /\ Cardinality(ActivePlayers(GS)) = 2
    /\ \E f \in Seats(GS) :
          /\ ~GS.players[f].is_active
          /\ GS.players[f].total_bet > 0
          /\ GS.current_player # f
          /\ Validate(GS, f, "call", 0) = "Not your turn"
    /\ \E w \in ActivePlayers(GS) :
          GS.players[w].chips > GS.players[w].total_bet

\* the ranks of the hand that was evaluated
EvaluatedRanks == {all_cards[k].rank : k \in DOMAIN all_cards}

\* the hand that was evaluated is of one suit
EvaluatedOneSuit == Cardinality({all_cards[k].suit : k \in DOMAIN all_cards}) = 1

\* the straight 2-3-4-5-6, not of one suit
SixHighStraight ==
    [k \in 1 .. 5 |-> [rank |-> k + 1, suit |-> Suits[((k - 1) % 4) + 1]]]

\* C29 - the wheel ranks as a five-high straight: A-2-3-4-5 not of one
\* suit is a Straight with tie-break 5, strictly below the straight
\* 2-3-4-5-6 (tie-break 6), and A-2-3-4-5 of one suit is a Straight Flush
\* with tie-break 5
C29_WheelIsFiveHigh ==
    (hand_rank # NoHandRank /\ EvaluatedRanks = {14, 2, 3, 4, 5}) =>
        IF EvaluatedOneSuit
        THEN hand_rank = [rank |-> STRAIGHT_FLUSH, tiebreaker |-> <<5>>]
        ELSE /\ hand_rank = [rank |-> STRAIGHT, tiebreaker |-> <<5>>]
             /\ GetHandRank(SixHighStraight) =
                    [rank |-> STRAIGHT, tiebreaker |-> <<6>>]
             /\ BetterHand(GetHandRank(SixHighStraight), hand_rank)

\* how often the rank r occurs in cards
Occurrences(cards, r) == Cardinality({k \in DOMAIN cards : cards[k].rank = r})

\* the reference rule for five cards, in priority order: a straight is
\* five ranks in a row or A-2-3-4-5, a flush is one suit, and the count
\* patterns are told by the number of ranks and the most frequent rank
ReferenceCategory(cards) ==
    LET rank_set == {cards[k].rank : k \in DOMAIN cards}
        distinct == Cardinality(rank_set)
        most == SetMax({Occurrences(cards, r) : r \in rank_set})
        flush == \A j, k \in DOMAIN cards : cards[j].suit = cards[k].suit
        straight ==
            /\ distinct = 5
            /\ \/ SetMax(rank_set) - SetMin(rank_set) = 4
               \/ rank_set = {14, 2, 3, 4, 5}
    IN CASE straight /\ flush /\ SetMin(rank_set) = 10 -> ROYAL_FLUSH
         [] straight /\ flush -> STRAIGHT_FLUSH
         [] distinct = 2 /\ most = 4 -> FOUR_OF_A_KIND
         [] distinct = 2 /\ most = 3 -> FULL_HOUSE
         [] flush -> FLUSH
         [] straight -> STRAIGHT
         [] distinct = 3 /\ most = 3 -> THREE_OF_A_KIND
         [] distinct = 3 /\ most = 2 -> TWO_PAIR
         [] distinct = 4 -> PAIR
         [] OTHER -> HIGH_CARD

\* C30 - five-card classification: for five distinct cards get_hand_rank
\* returns the category the reference rule gives
C30_FiveCardClassification ==
    (hand_rank # NoHandRank /\ Len(all_cards) = 5) =>
        hand_rank.rank = ReferenceCategory(all_cards)

\* the hand of test_poker_engine has been evaluated: ace, king, queen,
\* jack and ten of one suit, a royal flush
C30_Witness ==
    /\ Len(all_cards) = 5
    /\ EvaluatedRanks = 10 .. 14
    /\ EvaluatedOneSuit
    /\ hand_rank = [rank |-> ROYAL_FLUSH, tiebreaker |-> <<>>]

\* ------------------------------------------------- hands of five to seven
\* the most cards get_hand_rank is handed: two hole cards and the board
MaxCards == 7

\* lists of distinct cards; the first five, the first six and, where there
\* are seven, all seven are hands to evaluate: the wheel with a six and a
\* king, six hearts, three pairs, and a pair of kings among high cards
BaseHands ==
    {<<[rank |-> 14, suit |-> "spades"], [rank |-> 2, suit |-> "hearts"],
       [rank |-> 3, suit |-> "diamonds"], [rank |-> 4, suit |-> "clubs"],
       [rank |-> 5, suit |-> "spades"], [rank |-> 6, suit |-> "hearts"],
       [rank |-> 13, suit |-> "diamonds"]>>,
     <<[rank |-> 13, suit |-> "hearts"], [rank |-> 9, suit |-> "hearts"],
       [rank |-> 7, suit |-> "hearts"], [rank |-> 4, suit |-> "hearts"],
       [rank |-> 2, suit |-> "hearts"], [rank |-> 11, suit |-> "hearts"]>>,
     <<[rank |-> 12, suit |-> "spades"], [rank |-> 12, suit |-> "hearts"],
       [rank |-> 8, suit |-> "diamonds"], [rank |-> 8, suit |-> "clubs"],
       [rank |-> 3, suit |-> "spades"], [rank |-> 3, suit |-> "hearts"]>>,
     <<[rank |-> 13, suit |-> "spades"], [rank |-> 11, suit |-> "hearts"],
       [rank |-> 9, suit |-> "diamonds"], [rank |-> 6, suit |-> "clubs"],
       [rank |-> 3, suit |-> "spades"], [rank |-> 13, suit |-> "hearts"]>>}

\* the hands to evaluate, each in the order it is listed in
ListedHands ==
    {SubSeq(b, 1, Min(n, Len(b))) : b \in BaseHands, n \in 5 .. MaxCards}

\* every order of a list of cards
Orders(cards) ==
    {[k \in DOMAIN cards |-> cards[p[k]]] : p \in Permutations(DOMAIN cards)}

\* the lists of five to MaxCards distinct cards handed to get_hand_rank:
\* every order of every hand
OrderedHands == UNION {Orders(h) : h \in ListedHands}

\* an engine that is handed a list of five to seven cards to evaluate
InitOrdered ==
    /\ game_state = NoGame
    /\ dealer_position = 0
    /\ hand_number = 0
    /\ small_blind = 1
    /\ big_blind = 2
    /\ chip_distribution_error = FALSE
    /\ deck = <<>>
    /\ hole_cards = <<>>
    /\ community_cards = <<>>
    /\ round = "none"
    /\ NoOrchestrator
    /\ all_cards \in OrderedHands
    /\ hand_rank = NoHandRank

SpecOrdered == InitOrdered /\ [][RankHand]_vars

\* the cards of a list, in the order the hand is listed in
Listed(cards) == CHOOSE h \in ListedHands : CardsIn(h) = CardsIn(cards)

\* C31 - evaluator order-invariance: every order of a hand of 5 to 7
\* distinct cards gets from get_hand_rank the (category, tie-break) pair the
\* hand gets in the order it is listed in, so that a list and every
\* permutation of it get the same pair
C31_OrderInvariance ==
    hand_rank # NoHandRank => hand_rank = GetHandRank(Listed(all_cards))

\* the seven cards A 2 3 4 5 6 K have been evaluated in an order that
\* starts with the king and the six, which the listed order ends with
C31_Witness ==
    /\ hand_rank # NoHandRank
    /\ Len(all_cards) = 7
    /\ all_cards[1].rank = 13
    /\ all_cards[2].rank = 6
    /\ hand_rank.rank = STRAIGHT

\* the evaluations of the 5-card subsets of cards
SubsetEvaluations(cards) ==
    {EvaluateHand([k \in 1 .. 5 |->
                      cards[CHOOSE i \in c :
                                Cardinality({j \in c : j < i}) = k - 1]]) :
         c \in {c \in SUBSET DOMAIN cards : Cardinality(c) = 5}}

\* a >= b for two lists of integers, position by position from the left
LexAtLeast(a, b) ==
    \/ a = b
    \/ \E i \in 1 .. Len(a) :
          /\ \A j \in 1 .. (i - 1) : j <= Len(b) /\ a[j] = b[j]
          /\ i > Len(b) \/ a[i] > b[i]

\* a >= b for two evaluations: by category, then by tie-break
AtLeast(a, b) ==
    \/ a.rank > b.rank
    \/ a.rank = b.rank /\ LexAtLeast(a.tiebreaker, b.tiebreaker)

\* C32 - best five of seven: for 6 or 7 distinct cards the pair returned by
\* get_hand_rank is the evaluation of one of the 5-card subsets and is
\* greater than or equal to the evaluation of every 5-card subset, by
\* category first and then lexicographically by tie-break
C32_BestFiveOfSeven ==
    (hand_rank # NoHandRank /\ Len(all_cards) \in {6, 7}) =>
        /\ hand_rank \in SubsetEvaluations(all_cards)
        /\ \A e \in SubsetEvaluations(all_cards) : AtLeast(hand_rank, e)

\* three pairs in six cards have been evaluated, the lowest two pairs
\* first: the hand returned is queens and eights with a three, which is
\* not the first combination of five
C32_Witness ==
    /\ Len(all_cards) = 6
    /\ <<all_cards[1].rank, all_cards[2].rank, all_cards[3].rank,
         all_cards[4].rank>> = <<3, 3, 8, 8>>
    /\ hand_rank = [rank |-> TWO_PAIR, tiebreaker |-> <<12, 8, 3>>]

\* the agent of the current player has given no usable decision: no
\* response, an exception, malformed data, or an action string that is
\* not one of the five
Unusable ==
    \/ response.kind \in {"none", "exception", "malformed", "no_action"}
    \/ response.kind = "decision" /\ response.action \notin Actions

\* this step is process_action(current player, FOLD), and the player is
\* out of the hand after it
FoldSubmitted ==
    /\ ProcessAction(game_state.current_player, "fold", 0)
    /\ ~game_state'.players[game_state.current_player].is_active

\* C33 - default fold on collaborator failure: when the orchestrator has
\* obtained no usable decision for the current player, the rest of the
\* iteration submits Fold for that player to process_action, before any
\* further decision is requested
C33_DefaultFold ==
    [][(play_pc = "process" /\ Unusable) => FoldSubmitted]_vars

\* the context ids held by the agents
HeldContexts == {agent_contexts[x] : x \in DOMAIN agent_contexts}

\* after this step agent a holds a context id that no agent held before
\* the step, and is marked as not initialized
IsReset(a) ==
    /\ a \in DOMAIN agent_contexts'
    /\ agent_contexts'[a] \notin HeldContexts
    /\ a \in DOMAIN agent_initialized'
    /\ agent_initialized'[a] = FALSE

\* C34 - agent state reset: after reset_agent_state(a) for a configured
\* agent a, agent_contexts[a] is a fresh context id different from the one
\* held before the call, agent_initialized[a] is false and the context ids
\* of the other agents are untouched; after reset_all_agent_states every
\* configured agent has a fresh context id and is not initialized
C34_AgentStateReset ==
    [][/\ \A a \in WhiteAgents, clear_memory \in BOOLEAN :
              ResetAgentState(a, clear_memory) =>
                  /\ IsReset(a)
                  /\ \A b \in AgentIds \ {a} :
                        /\ b \in DOMAIN agent_contexts' <=>
                               b \in DOMAIN agent_contexts
                        /\ b \in DOMAIN agent_contexts =>
                               agent_contexts'[b] = agent_contexts[b]
       /\ \A clear_memory \in BOOLEAN :
              ResetAllAgentStates(clear_memory) =>
                  /\ \A a \in WhiteAgents : IsReset(a)
                  /\ \A a, b \in WhiteAgents :
                        a # b => agent_contexts'[a] # agent_contexts'[b]
      ]_vars

\* both agents were initialized, with the first two context ids, and the
\* first one has then been reset: it holds the third id and is marked as
\* not initialized, the other one is as it was
C34_Witness ==
    /\ DOMAIN agent_contexts = WhiteAgents
    /\ agent_contexts[0] = Uuid4(3)
    /\ agent_contexts[1] = Uuid4(2)
    /\ DOMAIN agent_initialized = WhiteAgents
    /\ agent_initialized[0] = FALSE
    /\ agent_initialized[1] = TRUE

\* this step is an accepted call of process_action in a hand in progress
AcceptedCall ==
    /\ InHand
    /\ hand_number' = hand_number
    /\ GS' # GS
    /\ \E c \in Calls : c[1] = GS.current_player /\ Accepted(c) /\ Step(c)

\* C35 - automatic round advancement: no state returned by process_action
\* has round # "showdown" while _is_round_complete() is true; when an
\* action leaves no active player able to act, the engine does not stop at
\* an intermediate street
C35_AutomaticAdvance ==
    [][AcceptedCall =>
          ~(GS'.round # "showdown" /\ IsRoundComplete(GS'))]_vars

\* the engine with an orchestrator that goes on submitting actions while
\* one of them changes the state
SpecFair == Spec /\ WF_vars(Act)

\* this step is an accepted raise
RaiseStep ==
    /\ GS' # GS
    /\ \E c \in Calls :
          c[1] = GS.current_player /\ c[2] = "raise" /\ Accepted(c) /\ Step(c)

\* a hand is in progress and has not reached the showdown
BeforeShowdown == InHand /\ GS.round # "showdown"

\* C36 - no deadlock before showdown: in every reachable state with round
\* # "showdown" there is a player and an action whose process_action call
\* is accepted, and when accepted actions are submitted with finitely
\* many raises the hand reaches the showdown
C36_NoDeadlock ==
    /\ [](BeforeShowdown => \E c \in Calls : Accepted(c))
    /\ (<>[][~RaiseStep]_vars) =>
           [](BeforeShowdown => <>(GS.round = "showdown"))

\* the seats from dealer + 1 clockwise, all of them once
ClockwiseFromDealer(gs) ==
    [k \in 1 .. NumPlayers(gs) |-> (gs.dealer_position + k) % NumPlayers(gs)]

\* the first seat clockwise from dealer + 1 whose player can act
FirstToAct(gs) ==
    LET order == ClockwiseFromDealer(gs)
        k == CHOOSE k \in DOMAIN order :
                 /\ CanAct(gs, order[k])
                 /\ \A j \in 1 .. (k - 1) : ~CanAct(gs, order[j])
    IN order[k]

\* this step is an accepted call that takes the hand to the next street
EntersStreet ==
    /\ AcceptedCall
    /\ GS'.round # GS.round
    /\ GS'.round \in {"flop", "turn", "river"}

\* C37 - post-flop first to act: when the engine enters flop, turn or
\* river with at least one player able to act, current_player is the first
\* seat clockwise from dealer + 1 whose player is active, not all-in and
\* has chips; an all-in or chip-less player is never selected
C37_PostflopFirstToAct ==
    [][(EntersStreet /\ \E i \in Seats(GS') : CanAct(GS', i)) =>
          GS'.current_player = FirstToAct(GS')]_vars

\* C38 - a call never takes chips out of the pot: whenever a call of the
\* current player is accepted, the caller's current_bet does not exceed the
\* table current_bet, so that the call does not raise the caller's chips
\* and does not lower the pot
C38_CallPaysIntoPot ==
    InHand =>
        \A i \in Seats(GS) :
            Accepted(<<i, "call", 0>>) =>
                /\ GS.players[i].current_bet <= GS.current_bet
                /\ Call(GS, i).players[i].chips <= GS.players[i].chips
                /\ Call(GS, i).pot >= GS.pot

\* C40 - minimum_raise stays positive: with big_blind > small_blind > 0,
\* in every reachable state before the showdown minimum_raise >= 1, so
\* that the lowest raise-to amount, current_bet + minimum_raise, is
\* strictly above the table current_bet
C40_MinimumRaisePositive ==
    (BeforeShowdown /\ big_blind > small_blind /\ small_blind > 0) =>
        /\ GS.minimum_raise >= 1
        /\ GS.current_bet + GS.minimum_raise > GS.current_bet

\* _play_hand as the event loop runs it: an iteration that can be done is
\* done, and as every answered request takes time, the hand timeout has
\* passed at one of the checks if the checks go on for ever
SpecPlayFair ==
    /\ SpecPlay
    /\ WF_vars(PlayHandEnd)
    /\ WF_vars(PlayHandSkip)
    /\ WF_vars(PlayHandRequest)
    /\ WF_vars(PlayHandProcess(FALSE) \/ PlayHandProcess(TRUE))
    /\ SF_vars(PlayHandProcess(TRUE))

\* C39 - the hand loop of the orchestrator terminates: whatever the agents
\* answer, the while-loop of _play_hand ends; it does not iterate for ever
\* without applying an action, neither on the branch that calls
\* _next_player for a folded or chip-less current player nor when an agent
\* keeps returning rejected or invalid actions
C39_HandLoopTerminates ==
    (play_pc = "loop") ~> (play_pc \in {"done", "crashed"})

====
